---- MODULE Spec2Model ----
(***************************************************************************)
(* Model of monday-client's retry/limit governor, MondayClient.post_request *)
(* (src/monday/client.py).  One top-level call is a state machine whose    *)
(* suspension points are the transport call and the cooldown sleep.        *)
(* Strings are TLA+ strings; a character is a string of length one.        *)
(***************************************************************************)
EXTENDS Integers, Sequences, FiniteSets, TLC

(***************************************************************************)
(* Bounds of the model.                                                    *)
(***************************************************************************)
\* largest max_retries a client is constructed with in the model
MaxRetriesBound == 3

(***************************************************************************)
(* Text helpers: the Python str operations post_request relies on.         *)
(***************************************************************************)
CharAt(s, i) == SubSeq(s, i, i)

Digits == {"0", "1", "2", "3", "4", "5", "6", "7", "8", "9"}

DigitVal(c) ==
  CASE c = "0" -> 0 [] c = "1" -> 1 [] c = "2" -> 2 [] c = "3" -> 3
    [] c = "4" -> 4 [] c = "5" -> 5 [] c = "6" -> 6 [] c = "7" -> 7
    [] c = "8" -> 8 [] c = "9" -> 9

\* str.lower() on one character (ASCII letters that occur in the payload keys)
LowerChar(c) ==
  CASE c = "A" -> "a" [] c = "C" -> "c" [] c = "D" -> "d" [] c = "E" -> "e"
    [] c = "O" -> "o" [] c = "R" -> "r" [] c = "S" -> "s" [] c = "T" -> "t"
    [] OTHER -> c

RECURSIVE LowerFrom(_, _)
LowerFrom(s, i) ==
  IF i > Len(s) THEN "" ELSE LowerChar(CharAt(s, i)) \o LowerFrom(s, i + 1)

\* key.lower()
Lower(s) == LowerFrom(s, 1)

\* s[i:i+len(t)] == t  (1-based i)
StartsWithAt(s, i, t) ==
  /\ i + Len(t) - 1 <= Len(s)
  /\ SubSeq(s, i, i + Len(t) - 1) = t

\* Python's  t in s
Contains(s, t) == \E i \in 1..(Len(s) + 1) : StartsWithAt(s, i, t)

\* end (exclusive) of the maximal run of digits of s that starts at i
RECURSIVE DigitRunEnd(_, _)
DigitRunEnd(s, i) ==
  IF i <= Len(s) /\ CharAt(s, i) \in Digits THEN DigitRunEnd(s, i + 1) ELSE i

\* int() of a string of digits s[i..j-1], acc is the value read so far
RECURSIVE DigitsValue(_, _, _, _)
DigitsValue(s, i, j, acc) ==
  IF i >= j THEN acc
  ELSE DigitsValue(s, i + 1, j, acc * 10 + DigitVal(CharAt(s, i)))

\* TRUE iff some digit of s[i..j-1] is not "0"
HasNonZeroDigit(s, i, j) == \E k \in i..(j - 1) : CharAt(s, k) # "0"

\* re.match(r'(\d+(?:\.\d+)?) seconds', s[i-1:]): the span of group(1) as
\* [from, dot, to], dot = 0 when the number has no fractional part, or
\* NoMatch.  \d+ is greedy and a shorter run of digits is followed by a
\* digit, which matches neither '\.' nor ' ', so only maximal runs match.
NoMatch == [from |-> 0, dot |-> 0, to |-> 0]

MatchAt(s, i) ==
  LET j == DigitRunEnd(s, i)
      k == DigitRunEnd(s, j + 1)
  IN  IF j = i THEN NoMatch
      ELSE IF j <= Len(s) /\ CharAt(s, j) = "." /\ k > j + 1
                /\ StartsWithAt(s, k, " seconds")
           THEN [from |-> i, dot |-> j, to |-> k]
      ELSE IF StartsWithAt(s, j, " seconds")
           THEN [from |-> i, dot |-> 0, to |-> j]
      ELSE NoMatch

\* re.search(...): the leftmost position at which the pattern matches
RECURSIVE SearchFrom(_, _)
SearchFrom(s, i) ==
  IF i > Len(s) THEN NoMatch
  ELSE IF MatchAt(s, i) # NoMatch THEN MatchAt(s, i)
  ELSE SearchFrom(s, i + 1)

\* variant: the pattern r'(\d+)' that matches any number
RECURSIVE FirstDigitRun(_, _)
FirstDigitRun(s, i) ==
  IF i > Len(s) THEN NoMatch
  ELSE IF CharAt(s, i) \in Digits
       THEN [from |-> i, dot |-> 0, to |-> DigitRunEnd(s, i)]
  ELSE FirstDigitRun(s, i + 1)

reset_in_search_AnyNumber(error_message) == FirstDigitRun(error_message, 1)

reset_in_search(error_message) == SearchFrom(error_message, 1)

\* variant: int(float(...)) in place of math.ceil
CeilFloat_Truncate(s, m) ==
  DigitsValue(s, m.from, IF m.dot = 0 THEN m.to ELSE m.dot, 0)

\* math.ceil(float(reset_in_search.group(1)))
CeilFloat(s, m) ==
  IF m.dot = 0 THEN DigitsValue(s, m.from, m.to, 0)
  ELSE DigitsValue(s, m.from, m.dot, 0)
         + (IF HasNonZeroDigit(s, m.dot + 1, m.to) THEN 1 ELSE 0)

\* str(n) of a non-negative int, as the f-strings of post_request format it
DigitChar(d) ==
  CASE d = 0 -> "0" [] d = 1 -> "1" [] d = 2 -> "2" [] d = 3 -> "3"
    [] d = 4 -> "4" [] d = 5 -> "5" [] d = 6 -> "6" [] d = 7 -> "7"
    [] d = 8 -> "8" [] d = 9 -> "9"

RECURSIVE Str(_)
Str(n) == IF n < 10 THEN DigitChar(n) ELSE Str(n \div 10) \o DigitChar(n % 10)

(***************************************************************************)
(* Response payloads.  A payload is the parsed JSON object returned by the *)
(* transport: its set of top-level keys and the values of the three keys   *)
(* post_request reads.  A JSON value read through int() is [t, v]: its     *)
(* JSON type and its text.  Fields of absent keys hold the defaults.       *)
(***************************************************************************)
JsonNull == [t |-> "null", v |-> ""]
JsonInt(text) == [t |-> "int", v |-> text]
JsonStr(text) == [t |-> "str", v |-> text]

\* "-" stands for an absent error_code or error_message, JsonAbsent for an
\* absent status_code
JsonAbsent == [t |-> "absent", v |-> ""]

Payload(otherKeys, ec, em, sc) ==
  [keys |-> otherKeys \cup (IF ec = "-" THEN {} ELSE {"error_code"})
                      \cup (IF em = "-" THEN {} ELSE {"error_message"})
                      \cup (IF sc = JsonAbsent THEN {} ELSE {"status_code"}),
   error_code |-> IF ec = "-" THEN "" ELSE ec,
   error_message |-> IF em = "-" THEN "" ELSE em,
   status_code |-> sc]

\* error_message texts whose cooldown the pattern finds
ParseableMessages ==
  {"reset in 12 seconds", "reset in 12.4 seconds", "reset in 0.5 seconds",
   "reset in 90 seconds", "reset in 0 seconds", "reset in 2.0 seconds",
   "3 seconds or 9 seconds", "reset in .5 seconds", "reset in 1.2.3 seconds"}

\* error_message texts in which the pattern finds nothing
UnparseableMessages ==
  {"Complexity limit exceeded", "reset in 12seconds", "reset in 12. seconds"}

SuccessPayloads ==
  {Payload({"data"}, "-", "-", JsonAbsent),
   Payload({}, "-", "-", JsonAbsent),
   Payload({"data", "account_id"}, "-", "-", JsonInt("429"))}

ComplexityPayloads ==
  {Payload({"error"}, "ComplexityException", m, JsonAbsent)
     : m \in ParseableMessages \cup UnparseableMessages}
  \cup {Payload({"error"}, "ComplexityException", "reset in 12 seconds", JsonInt("429")),
        Payload({"error"}, "ComplexityException", "Complexity limit exceeded", JsonInt("429")),
        Payload({}, "ComplexityException", "-", JsonAbsent)}

RatePayloads ==
  {Payload({"error"}, "-", "-", JsonInt("429")),
   Payload({"errors"}, "-", "Rate limit exceeded", JsonStr("429")),
   Payload({"error"}, "-", "reset in 12 seconds", JsonInt("429"))}

OtherFaultPayloads ==
  {Payload({"errors"}, "-", "-", JsonAbsent),
   Payload({"data", "graphqlErrors"}, "-", "-", JsonAbsent),
   Payload({"error"}, "-", "mapping is not in the expected format", JsonInt("400")),
   Payload({}, "UserUnauthorizedException", "reset in 12 seconds", JsonAbsent),
   Payload({"error"}, "-", "-", JsonNull),
   Payload({"error"}, "-", "-", JsonStr("abc"))}

Payloads ==
  SuccessPayloads \cup ComplexityPayloads \cup RatePayloads \cup OtherFaultPayloads

NoPayload == Payload({}, "-", "-", JsonAbsent)

\* what one await of _execute_request produces: the parsed JSON body, or
\* aiohttp.ClientError raised by the transport
Outcomes ==
  {[kind |-> "json", payload |-> p, text |-> ""] : p \in Payloads}
  \cup {[kind |-> "ClientError", payload |-> NoPayload, text |-> "Client error occurred"]}

(***************************************************************************)
(* The body of post_request.                                               *)
(***************************************************************************)
\* self._rate_limit_seconds
rate_limit_seconds == 60

\* variant: the key test without lower()
HasErrorKey_CaseSensitive(response_data) ==
  \E key \in response_data.keys : Contains(key, "error")

\* any('error' in key.lower() for key in response_data.keys())
HasErrorKey(response_data) ==
  \E key \in response_data.keys : Contains(Lower(key), "error")

\* int(x) on a JSON value: [exc, val], exc = "" when the conversion succeeds
IntOf(x) ==
  IF x.t = "int" THEN [exc |-> "", val |-> DigitsValue(x.v, 1, Len(x.v) + 1, 0)]
  ELSE IF x.t = "str"
       THEN IF Len(x.v) > 0 /\ DigitRunEnd(x.v, 1) = Len(x.v) + 1
            THEN [exc |-> "", val |-> DigitsValue(x.v, 1, Len(x.v) + 1, 0)]
            ELSE [exc |-> "ValueError", val |-> 0]
  ELSE [exc |-> "TypeError", val |-> 0]

Return(tag, p, text) ==
  [kind |-> "return", tag |-> tag, payload |-> p, text |-> text, reset_in |-> 0]
Raise(exc, text, reset_in) ==
  [kind |-> "raise", tag |-> exc, payload |-> NoPayload, text |-> text,
   reset_in |-> reset_in]

\* line 255: the fault carries the provider's complexity code
IsComplexityException(response_data) ==
  /\ "error_code" \in response_data.keys
  /\ response_data.error_code = "ComplexityException"

\* variant: the comparison tests for server errors
IsRateLimitStatus_ServerError(status) == status >= 500

\* line 263: the comparison of the converted status code
IsRateLimitStatus(status) == status = 429

\* variant: the cooldown of a mutation-rate fault is read from the payload
\* when its message states one
MutationResetIn_FromMessage(response_data) ==
  IF "error_message" \in response_data.keys
     /\ reset_in_search(response_data.error_message) # NoMatch
  THEN CeilFloat(response_data.error_message,
                 reset_in_search(response_data.error_message))
  ELSE rate_limit_seconds

\* line 264: the cooldown of a mutation-rate fault
MutationResetIn(response_data) == rate_limit_seconds

\* lines 254-268: what the try block does with a response
InspectResponse(response_data) ==
  IF HasErrorKey(response_data)
  THEN IF IsComplexityException(response_data)
       THEN IF "error_message" \notin response_data.keys
            THEN Raise("KeyError", "'error_message'", 0)
            ELSE LET m == reset_in_search(response_data.error_message)
                 IN  IF m # NoMatch
                     THEN LET reset_in == CeilFloat(response_data.error_message, m)
                          IN  Raise("ComplexityLimitExceeded",
                                    "Complexity limit exceeded, retrying after "
                                      \o Str(reset_in) \o " seconds...",
                                    reset_in)
                     ELSE Return("error", response_data, "")
       ELSE IF "status_code" \in response_data.keys
            THEN LET c == IntOf(response_data.status_code)
                 IN  IF c.exc # "" THEN Raise(c.exc, "", 0)
                     ELSE IF IsRateLimitStatus(c.val)
                     THEN LET reset_in == MutationResetIn(response_data)
                          IN  Raise("MutationLimitExceeded",
                                    "Rate limit exceeded, retrying after "
                                      \o Str(reset_in) \o " seconds...",
                                    reset_in)
                     ELSE Return("error", response_data, "")
            ELSE Return("error", response_data, "")
  ELSE Return("response", response_data, "")

\* lines 251-252 and 254-268: the try block applied to what the transport did
TryBlock(outcome) ==
  IF outcome.kind = "ClientError" THEN Raise("ClientError", outcome.text, 0)
  ELSE InspectResponse(outcome.payload)

\* variant: no except clause for aiohttp.ClientError
CaughtExceptions_LimitsOnly ==
  {"ComplexityLimitExceeded", "MutationLimitExceeded"}

LimitExceptions == {"ComplexityLimitExceeded", "MutationLimitExceeded"}
CaughtExceptions == LimitExceptions \cup {"ClientError"}

\* variant: every retry waits the client-side window
Cooldown_FixedWindow(e) == rate_limit_seconds

\* the cooldown of a caught exception: e.reset_in (line 273) or
\* self._rate_limit_seconds (line 280)
Cooldown(e) == IF e.tag \in LimitExceptions THEN e.reset_in ELSE rate_limit_seconds

\* variant: the retry test lets the last attempt sleep as well
AttemptsLeft_OffByOne(attempt_, max_retries_) == attempt_ < max_retries_

\* lines 271 and 278: the retry test of both except clauses
AttemptsLeft(attempt_, max_retries_) == attempt_ < max_retries_ - 1

\* variant: the terminal error drops the exception text
MaxRetriesText_NoDetail(e) == "Max retries reached."

\* lines 276 and 283
MaxRetriesText(e) == "Max retries reached. Last error: " \o e.text

(***************************************************************************)
(* State of one top-level post_request call on a client.                   *)
(***************************************************************************)
VARIABLES
  max_retries,      \* self.max_retries of the client
  pc,               \* "loop": at the for statement; "request": awaiting
                    \* _execute_request; "sleep": awaiting asyncio.sleep;
                    \* "done": the coroutine has returned or raised
  attempt,          \* the loop variable
  response_data,    \* the local variable: [bound, value]
  sleep_for,        \* the argument of the pending asyncio.sleep
  result,           \* what the call returned or raised, once done
  transport_calls,  \* number of _execute_request calls made
  sleeps,           \* the arguments of the asyncio.sleep calls, in order
  responses         \* what the transport produced, in order

\* State of one paginated_item_request call
\* (src/monday/services/utils/pagination.py); see Pagination below.
VARIABLES
  page_pc,          \* "idle": no traversal is modelled; "top": at the head of
                    \* the while loop; "await": awaiting client.post_request;
                    \* "done": the coroutine has returned or raised
  query,            \* the query argument
  limit,            \* the limit argument
  starting_cursor,  \* the cursor argument as the caller passed it
  cursor,           \* the local variable cursor
  combined_items,   \* the local variable combined_items
  page_result,      \* what the call returned or raised, once done
  sent,             \* the queries passed to client.post_request, in order
  received          \* what client.post_request produced, in order

\* State of the post_request calls that run concurrently on one client;
\* see Concurrent calls below.
VARIABLES
  calls             \* for each call, the locals of its post_request coroutine

\* State of one call of a service operation (src/monday/services/users.py,
\* items.py, boards.py); see Service operations below.
VARIABLES
  operation,        \* the method called, "" when none is modelled
  svc_pc,           \* "idle"; "build": about to send a request; "await":
                    \* awaiting client.post_request; "boards": in the for
                    \* loop of _paginate_items; "items": awaiting
                    \* paginated_item_request; "done"
  svc_limit,        \* the limit argument
  paginate,         \* the paginate or paginate_items argument
  fields,           \* the fields argument of Boards.query
  args_page,        \* args['page']
  collected,        \* users_data, items_data or boards_data
  last_response,    \* the local variable last_response of Users.query
  board_index,      \* position of the for loop of _paginate_items
  requested,        \* args['page'] of each request sent, in order
  answers,          \* what client.post_request produced, in order
  item_answers,     \* what paginated_item_request produced, in order
  svc_result        \* what the call returned or raised, once done

page_vars == <<page_pc, query, limit, starting_cursor, cursor, combined_items,
               page_result, sent, received>>

governor_vars == <<max_retries, pc, attempt, response_data, sleep_for, result,
                   transport_calls, sleeps, responses>>

concurrent_vars == <<calls>>

\* State of the first client (src/monday_client/monday.py) and of the
\* threads that call it; see The first client under threads below.
VARIABLES
  client,           \* the first client's lock and counters, <<>> when none
  threads           \* the threads calling the first client, <<>> when none

thread_vars == <<client, threads>>

\* no thread calls the first client
ThreadsIdle == client = <<>> /\ threads = <<>>

service_vars == <<operation, svc_pc, svc_limit, paginate, fields, args_page,
                  collected,
                  last_response, board_index, requested, answers, item_answers,
                  svc_result>>

vars == <<max_retries, pc, attempt, response_data, sleep_for, result,
          transport_calls, sleeps, responses, page_vars, concurrent_vars,
          service_vars, thread_vars>>

\* what one post_request call leaves alone
outside_post_request == <<page_vars, concurrent_vars, service_vars, thread_vars>>

\* what one paginated_item_request call leaves alone
outside_pagination == <<governor_vars, concurrent_vars, service_vars, thread_vars>>

\* no concurrent calls are in progress
ConcurrentIdle == calls = <<>>

\* no service operation is in progress
ServiceIdle ==
  /\ operation = ""
  /\ svc_pc = "idle"
  /\ svc_limit = 0
  /\ paginate = FALSE
  /\ fields = ""
  /\ args_page = 0
  /\ collected = <<>>
  /\ last_response = <<>>
  /\ board_index = 0
  /\ requested = <<>>
  /\ answers = <<>>
  /\ item_answers = <<>>
  /\ svc_result = ""

\* no paginated_item_request call is in progress
PaginationIdle ==
  /\ page_pc = "idle"
  /\ query = ""
  /\ limit = 0
  /\ starting_cursor = ""
  /\ cursor = ""
  /\ combined_items = <<>>
  /\ page_result = ""
  /\ sent = <<>>
  /\ received = <<>>

NoResult == [kind |-> "none", tag |-> "", payload |-> NoPayload, text |-> "",
             reset_in |-> 0]

\* MondayClient.__init__ followed by the call of post_request
Init ==
  /\ max_retries \in 0..MaxRetriesBound
  /\ pc = "loop"
  /\ attempt = 0
  /\ response_data = [bound |-> FALSE, value |-> NoPayload]
  /\ sleep_for = 0
  /\ result = NoResult
  /\ transport_calls = 0
  /\ sleeps = <<>>
  /\ responses = <<>>
  /\ PaginationIdle
  /\ ConcurrentIdle
  /\ ServiceIdle
  /\ ThreadsIdle

\* line 250 into line 252: the loop has an iteration left and calls the transport
ExecuteRequest ==
  /\ pc = "loop"
  /\ attempt < max_retries
  /\ pc' = "request"
  /\ transport_calls' = transport_calls + 1
  /\ UNCHANGED <<max_retries, attempt, response_data, sleep_for, result, sleeps,
                 responses>>
  /\ UNCHANGED outside_post_request

\* the transport answers and the try block returns (lines 261, 266, 268)
ReturnFromTry ==
  /\ pc = "request"
  /\ \E outcome \in Outcomes :
       /\ TryBlock(outcome).kind = "return"
       /\ responses' = Append(responses, outcome)
       /\ response_data' = [bound |-> TRUE, value |-> outcome.payload]
       /\ result' = TryBlock(outcome)
  /\ pc' = "done"
  /\ UNCHANGED <<max_retries, attempt, sleep_for, transport_calls, sleeps>>
  /\ UNCHANGED outside_post_request

\* the try block raises an exception no except clause catches
\* (KeyError at line 256, TypeError or ValueError at line 263)
Propagate ==
  /\ pc = "request"
  /\ \E outcome \in Outcomes :
       /\ TryBlock(outcome).kind = "raise"
       /\ TryBlock(outcome).tag \notin CaughtExceptions
       /\ responses' = Append(responses, outcome)
       /\ response_data' = [bound |-> TRUE, value |-> outcome.payload]
       /\ result' = TryBlock(outcome)
  /\ pc' = "done"
  /\ UNCHANGED <<max_retries, attempt, sleep_for, transport_calls, sleeps>>
  /\ UNCHANGED outside_post_request

\* lines 270-273 and 277-280: a caught exception with attempts left
RetrySleep ==
  /\ pc = "request"
  /\ AttemptsLeft(attempt, max_retries)
  /\ \E outcome \in Outcomes :
       LET e == TryBlock(outcome) IN
       /\ e.kind = "raise"
       /\ e.tag \in CaughtExceptions
       /\ responses' = Append(responses, outcome)
       /\ response_data' = IF outcome.kind = "json"
                           THEN [bound |-> TRUE, value |-> outcome.payload]
                           ELSE response_data
       /\ sleep_for' = Cooldown(e)
       /\ sleeps' = Append(sleeps, Cooldown(e))
  /\ pc' = "sleep"
  /\ UNCHANGED <<max_retries, attempt, result, transport_calls>>
  /\ UNCHANGED outside_post_request

\* lines 274-276 and 281-283: a caught exception on the last attempt
MaxRetriesReached ==
  /\ pc = "request"
  /\ ~AttemptsLeft(attempt, max_retries)
  /\ \E outcome \in Outcomes :
       LET e == TryBlock(outcome) IN
       /\ e.kind = "raise"
       /\ e.tag \in CaughtExceptions
       /\ responses' = Append(responses, outcome)
       /\ response_data' = IF outcome.kind = "json"
                           THEN [bound |-> TRUE, value |-> outcome.payload]
                           ELSE response_data
       /\ result' = Return("error", NoPayload, MaxRetriesText(e))
  /\ pc' = "done"
  /\ UNCHANGED <<max_retries, attempt, sleep_for, transport_calls, sleeps>>
  /\ UNCHANGED outside_post_request

\* asyncio.sleep returns and the for statement takes the next value of attempt
WakeUp ==
  /\ pc = "sleep"
  /\ pc' = "loop"
  /\ attempt' = attempt + 1
  /\ sleep_for' = 0
  /\ UNCHANGED <<max_retries, response_data, result, transport_calls, sleeps,
                 responses>>
  /\ UNCHANGED outside_post_request

\* line 285: the loop ran out of iterations; response_data is unbound when
\* the body never assigned it
LoopExhausted ==
  /\ pc = "loop"
  /\ ~(attempt < max_retries)
  /\ result' = IF response_data.bound
               THEN Return("error", response_data.value, "Max retries reached: ")
               ELSE Raise("UnboundLocalError", "", 0)
  /\ pc' = "done"
  /\ UNCHANGED <<max_retries, attempt, response_data, sleep_for, transport_calls,
                 sleeps, responses>>
  /\ UNCHANGED outside_post_request

Next ==
  \/ ExecuteRequest
  \/ ReturnFromTry
  \/ Propagate
  \/ RetrySleep
  \/ MaxRetriesReached
  \/ WakeUp
  \/ LoopExhausted

Spec == Init /\ [][Next]_vars

TypeOK ==
  /\ max_retries \in 0..MaxRetriesBound
  /\ pc \in {"loop", "request", "sleep", "done"}
  /\ attempt \in 0..MaxRetriesBound
  /\ transport_calls \in 0..MaxRetriesBound
  /\ Len(sleeps) <= MaxRetriesBound

(***************************************************************************)
(* Vocabulary of the properties, stated on the payloads themselves.        *)
(***************************************************************************)
\* the top-level keys of the payloads above that contain "error" in some
\* letter case
KeysNamingError == {"error", "errors", "graphqlErrors", "error_code", "error_message"}

HasFaultMarker(p) == p.keys \cap KeysNamingError # {}

\* the number of seconds an error_message states, as the fraction num/den
StatedSeconds(m) ==
  CASE m = "reset in 12 seconds" -> [num |-> 12, den |-> 1]
    [] m = "reset in 12.4 seconds" -> [num |-> 124, den |-> 10]
    [] m = "reset in 0.5 seconds" -> [num |-> 5, den |-> 10]
    [] m = "reset in 90 seconds" -> [num |-> 90, den |-> 1]
    [] m = "reset in 0 seconds" -> [num |-> 0, den |-> 1]
    [] m = "reset in 2.0 seconds" -> [num |-> 20, den |-> 10]
    [] m = "3 seconds or 9 seconds" -> [num |-> 3, den |-> 1]

MessagesStatingSeconds ==
  {"reset in 12 seconds", "reset in 12.4 seconds", "reset in 0.5 seconds",
   "reset in 90 seconds", "reset in 0 seconds", "reset in 2.0 seconds",
   "3 seconds or 9 seconds"}

\* the least integer that is at least q.num / q.den
Ceiling(q) ==
  CHOOSE n \in 0..q.num : n * q.den >= q.num /\ (n - 1) * q.den < q.num

IsSuccess(o) == o.kind = "json" /\ ~HasFaultMarker(o.payload)

HasComplexityCode(o) ==
  /\ o.kind = "json"
  /\ "error_code" \in o.payload.keys
  /\ o.payload.error_code = "ComplexityException"

\* a ComplexityException fault whose message states its cooldown
ComplexityFaultWithCooldown(o) ==
  /\ HasComplexityCode(o)
  /\ "error_message" \in o.payload.keys
  /\ o.payload.error_message \in MessagesStatingSeconds

StatedCooldown(o) == Ceiling(StatedSeconds(o.payload.error_message))

IsNetworkFault(o) == o.kind = "ClientError"

ReturnedResponse(p) ==
  result.kind = "return" /\ result.tag = "response" /\ result.payload = p

ReturnedErrorPayload(p) ==
  result.kind = "return" /\ result.tag = "error" /\ result.payload = p
    /\ result.text = ""

ReturnedMaxRetries ==
  /\ result.kind = "return" /\ result.tag = "error"
  /\ StartsWithAt(result.text, 1, "Max retries reached")

(***************************************************************************)
(* C1.  With max_retries = M >= 1, a call whose transport yields N         *)
(* ComplexityException faults with a stated cooldown and then a success    *)
(* returns the success after N+1 transport calls and N sleeps, the k-th    *)
(* sleep lasting the cooldown of the k-th fault (N < M); a call that met   *)
(* only such faults ends in the terminal error after exactly M transport   *)
(* calls and M-1 sleeps.                                                   *)
(***************************************************************************)
LeadingComplexityFaults(n) ==
  \A k \in 1..n : ComplexityFaultWithCooldown(responses[k])

C1_RetryBound ==
  (pc = "done" /\ max_retries >= 1) =>
    LET n == Len(responses) IN
    /\ (n >= 1 /\ LeadingComplexityFaults(n - 1) /\ IsSuccess(responses[n])) =>
         /\ n - 1 < max_retries
         /\ ReturnedResponse(responses[n].payload)
         /\ transport_calls = n
         /\ Len(sleeps) = n - 1
         /\ \A k \in 1..(n - 1) : sleeps[k] = StatedCooldown(responses[k])
    /\ LeadingComplexityFaults(n) =>
         /\ n = max_retries
         /\ ReturnedMaxRetries
         /\ transport_calls = max_retries
         /\ Len(sleeps) = max_retries - 1
         /\ \A k \in 1..(n - 1) : sleeps[k] = StatedCooldown(responses[k])

C1_Witness ==
  /\ pc = "done"
  /\ max_retries = 3
  /\ Len(responses) = 3
  /\ LeadingComplexityFaults(2)
  /\ IsSuccess(responses[3])
  /\ sleeps = <<13, 1>>
  /\ ReturnedResponse(responses[3].payload)

(***************************************************************************)
(* C2.  One attempt counter serves every fault class: a call never makes   *)
(* more than max_retries transport calls, whatever the mix and order of    *)
(* complexity, 429 and network faults, and the retryable fault met on      *)
(* attempt number max_retries ends the call in the terminal error.         *)
(***************************************************************************)
\* a fault payload with status_code 429 that is not a complexity fault
RateFault(o) ==
  /\ o.kind = "json"
  /\ HasFaultMarker(o.payload)
  /\ ~HasComplexityCode(o)
  /\ "status_code" \in o.payload.keys
  /\ o.payload.status_code = JsonInt("429")

IsRetryableFault(o) ==
  IsNetworkFault(o) \/ ComplexityFaultWithCooldown(o) \/ RateFault(o)

C2_SharedAttemptCounter ==
  /\ transport_calls <= max_retries
  /\ Len(responses) <= transport_calls
  /\ \A k \in 1..Len(responses) :
       (IsRetryableFault(responses[k]) /\ k < max_retries) => Len(sleeps) >= k
  /\ (max_retries >= 1 /\ Len(responses) = max_retries
        /\ IsRetryableFault(responses[max_retries])) =>
       /\ pc = "done"
       /\ ReturnedMaxRetries
       /\ Len(sleeps) = max_retries - 1

C2_Witness ==
  /\ pc = "done"
  /\ max_retries = 3
  /\ Len(responses) = 3
  /\ IsNetworkFault(responses[1])
  /\ RateFault(responses[2])
  /\ ComplexityFaultWithCooldown(responses[3])
  /\ transport_calls = 3
  /\ ReturnedMaxRetries

(***************************************************************************)
(* C3.  The sleep that follows a ComplexityException fault whose message   *)
(* states '<number> seconds' lasts exactly the ceiling of that number      *)
(* (12 -> 12, 12.4 -> 13, 0.5 -> 1): it is neither capped by the           *)
(* rate-limit window (90 -> 90) nor raised to a minimum (0 -> 0).          *)
(***************************************************************************)
C3_CooldownIsCeiling ==
  /\ \A k \in 1..Len(responses) :
       (ComplexityFaultWithCooldown(responses[k]) /\ k < max_retries) =>
         /\ Len(sleeps) >= k
         /\ sleeps[k] = StatedCooldown(responses[k])
  /\ pc = "sleep" => sleep_for = sleeps[Len(sleeps)]

C3_Witness ==
  /\ pc = "sleep"
  /\ Len(responses) = 2
  /\ responses[1].payload.error_message = "reset in 90 seconds"
  /\ responses[2].payload.error_message = "reset in 12.4 seconds"
  /\ ComplexityFaultWithCooldown(responses[2])
  /\ sleeps = <<90, 13>>
  /\ sleep_for = 13

(***************************************************************************)
(* C4.  A ComplexityException fault whose message states no                *)
(* '<number> seconds' value ends the call at once, without a sleep and     *)
(* without an exception, in a fault result that carries the raw payload;   *)
(* as the first response: one transport call and no sleep.                 *)
(***************************************************************************)
MessagesWithoutSeconds == {"Complexity limit exceeded", "reset in 12seconds"}

ComplexityFaultWithoutCooldown(o) ==
  /\ HasComplexityCode(o)
  /\ "error_message" \in o.payload.keys
  /\ o.payload.error_message \in MessagesWithoutSeconds

C4_UnparseableIsTerminal ==
  \A k \in 1..Len(responses) :
    ComplexityFaultWithoutCooldown(responses[k]) =>
      /\ k = Len(responses)
      /\ pc = "done"
      /\ ReturnedErrorPayload(responses[k].payload)
      /\ transport_calls = k
      /\ Len(sleeps) = k - 1

C4_Witness ==
  /\ pc = "done"
  /\ Len(responses) = 1
  /\ ComplexityFaultWithoutCooldown(responses[1])
  /\ responses[1].payload.error_message = "reset in 12seconds"
  /\ max_retries = 3
  /\ transport_calls = 1
  /\ sleeps = <<>>
  /\ ReturnedErrorPayload(responses[1].payload)

(***************************************************************************)
(* C5.  As claimed: every fault payload with status_code 429 met while     *)
(* attempts remain is followed by a sleep of the rate-limit window,        *)
(* whatever else the payload holds.                                        *)
(***************************************************************************)
HasStatus429(o) ==
  /\ o.kind = "json"
  /\ "status_code" \in o.payload.keys
  /\ o.payload.status_code = JsonInt("429")

FaultWith429(o) == HasStatus429(o) /\ HasFaultMarker(o.payload)

C5_Original ==
  \A k \in 1..Len(responses) :
    (FaultWith429(responses[k]) /\ k < max_retries) =>
      /\ Len(sleeps) >= k
      /\ sleeps[k] = rate_limit_seconds

(***************************************************************************)
(* C5, amended.  A fault payload with status_code 429 whose error_code is  *)
(* not 'ComplexityException', met while attempts remain, is followed by a  *)
(* sleep of exactly the rate-limit window; the length does not depend on   *)
(* the rest of the payload (a message stating other seconds is ignored).   *)
(***************************************************************************)
C5_RateFaultSleepsWindow ==
  \A k \in 1..Len(responses) :
    (RateFault(responses[k]) /\ k < max_retries) =>
      /\ Len(sleeps) >= k
      /\ sleeps[k] = rate_limit_seconds
      /\ (k = Len(responses) /\ pc = "sleep") => sleep_for = rate_limit_seconds

C5_Witness ==
  /\ pc = "sleep"
  /\ Len(responses) = 1
  /\ RateFault(responses[1])
  /\ responses[1].payload.error_message = "reset in 12 seconds"
  /\ sleep_for = 60
  /\ sleeps = <<60>>

(***************************************************************************)
(* C6.  As claimed: every response payload with status_code 429 met while  *)
(* attempts remain is retried, never handed back to the caller.            *)
(***************************************************************************)
C6_Original ==
  \A k \in 1..Len(responses) :
    (HasStatus429(responses[k]) /\ k < max_retries) => Len(sleeps) >= k

(***************************************************************************)
(* C6, amended.  Every response payload that has status_code 429, a        *)
(* top-level key containing 'error' and an error_code other than           *)
(* 'ComplexityException' is classified as a rate fault: it is retried      *)
(* while attempts remain and ends the call in the terminal error that      *)
(* names the rate limit on the last attempt; it is never returned.         *)
(***************************************************************************)
C6_FaultWith429IsRateFault ==
  \A k \in 1..Len(responses) :
    RateFault(responses[k]) =>
      /\ k < max_retries => Len(sleeps) >= k
      /\ k >= max_retries =>
           /\ k = max_retries
           /\ pc = "done"
           /\ ReturnedMaxRetries
           /\ Contains(result.text, "Rate limit exceeded")
      /\ ~(result.kind = "return" /\ result.payload = responses[k].payload)

C6_Witness ==
  /\ pc = "done"
  /\ max_retries = 2
  /\ Len(responses) = 2
  /\ RateFault(responses[1])
  /\ RateFault(responses[2])
  /\ sleeps = <<60>>
  /\ Contains(result.text, "Rate limit exceeded")

(***************************************************************************)
(* C7.  aiohttp.ClientError is retryable: F network faults followed by a   *)
(* success, F < max_retries, return the success after exactly F sleeps,    *)
(* each of the fixed rate-limit window.                                    *)
(***************************************************************************)
LeadingNetworkFaults(n) == \A k \in 1..n : IsNetworkFault(responses[k])

C7_NetworkFaultRetried ==
  /\ \A k \in 1..Len(responses) :
       (IsNetworkFault(responses[k]) /\ k < max_retries) =>
         /\ Len(sleeps) >= k
         /\ sleeps[k] = rate_limit_seconds
  /\ (pc = "done" /\ max_retries >= 1) =>
       LET n == Len(responses) IN
       /\ (n >= 1 /\ LeadingNetworkFaults(n - 1) /\ IsSuccess(responses[n])) =>
            /\ n - 1 < max_retries
            /\ ReturnedResponse(responses[n].payload)
            /\ transport_calls = n
            /\ Len(sleeps) = n - 1
       /\ LeadingNetworkFaults(n) => n = max_retries

C7_Witness ==
  /\ pc = "done"
  /\ max_retries = 3
  /\ Len(responses) = 3
  /\ LeadingNetworkFaults(2)
  /\ IsSuccess(responses[3])
  /\ sleeps = <<60, 60>>
  /\ ReturnedResponse(responses[3].payload)

(***************************************************************************)
(* C8.  A fault payload that is neither a ComplexityException nor a        *)
(* status_code-429 fault ends the call on that response, with no sleep,    *)
(* in a result that carries the raw payload; as the first response: one    *)
(* transport call.                                                         *)
(***************************************************************************)
OtherFault(o) ==
  /\ o.kind = "json"
  /\ HasFaultMarker(o.payload)
  /\ ~HasComplexityCode(o)
  /\ ~("status_code" \in o.payload.keys
         /\ o.payload.status_code \in {JsonInt("429"), JsonStr("429")})

C8_OtherFaultIsTerminal ==
  \A k \in 1..Len(responses) :
    OtherFault(responses[k]) =>
      /\ k = Len(responses)
      /\ pc = "done"
      /\ ReturnedErrorPayload(responses[k].payload)
      /\ transport_calls = k
      /\ Len(sleeps) = k - 1

(***************************************************************************)
(* C9.  A response is flagged as a fault exactly when one of its top-level *)
(* keys contains 'error' in some letter case: a response without such a    *)
(* key is returned unchanged, with no sleep after it (one transport call   *)
(* when it is the first response); a response with such a key is never     *)
(* returned as a response.                                                 *)
(***************************************************************************)
C9_FaultFlagIsErrorKey ==
  \A k \in 1..Len(responses) :
    responses[k].kind = "json" =>
      IF HasFaultMarker(responses[k].payload)
      THEN \/ Len(sleeps) >= k
           \/ /\ k = Len(responses)
              /\ pc = "done"
              /\ \/ result.kind = "raise"
                 \/ result.kind = "return" /\ result.tag = "error"
      ELSE /\ k = Len(responses)
           /\ pc = "done"
           /\ ReturnedResponse(responses[k].payload)
           /\ transport_calls = k
           /\ Len(sleeps) = k - 1

C9_Witness ==
  /\ pc = "done"
  /\ Len(responses) = 1
  /\ responses[1].payload.keys = {"data", "graphqlErrors"}
  /\ ReturnedErrorPayload(responses[1].payload)
  /\ transport_calls = 1
  /\ sleeps = <<>>

(***************************************************************************)
(* C10.  No fault is swallowed: a finished call has returned a response    *)
(* without a fault marker, or an explicit fault result (key 'error'), or   *)
(* has raised; a returned response is the last payload received and has    *)
(* no fault marker; a retryable fault is followed by another attempt or    *)
(* by the terminal error whose text embeds the message of that fault.      *)
(***************************************************************************)
\* the decimal text of the cooldown a message states
StatedCooldownText(m) ==
  CASE m = "reset in 12 seconds" -> "12"
    [] m = "reset in 12.4 seconds" -> "13"
    [] m = "reset in 0.5 seconds" -> "1"
    [] m = "reset in 90 seconds" -> "90"
    [] m = "reset in 0 seconds" -> "0"
    [] m = "reset in 2.0 seconds" -> "2"
    [] m = "3 seconds or 9 seconds" -> "3"

\* the message of the exception a retryable fault is turned into
FaultMessage(o) ==
  IF IsNetworkFault(o) THEN o.text
  ELSE IF ComplexityFaultWithCooldown(o)
       THEN "Complexity limit exceeded, retrying after "
              \o StatedCooldownText(o.payload.error_message) \o " seconds..."
  ELSE "Rate limit exceeded, retrying after 60 seconds..."

C11_ExhaustedBudgetRaises ==
  (/\ pc = "done"
   /\ max_retries >= 1
   /\ Len(responses) = max_retries
   /\ \A k \in 1..Len(responses) : IsRetryableFault(responses[k])) =>
    /\ result.kind = "raise"
    /\ result.text = "Max retries (" \o Str(max_retries) \o ") reached"

(***************************************************************************)
(* C12.  A non-retryable provider fault (a GraphQL 'errors' payload, a     *)
(* ComplexityException without a reset time) ends post_request after that  *)
(* one attempt by raising a typed exception: QueryFormatError or           *)
(* MondayAPIError for the 'errors' payload, MondayAPIError for the         *)
(* complexity fault.                                                       *)
(***************************************************************************)
GraphQLErrorsFault(o) ==
  o.kind = "json" /\ "errors" \in o.payload.keys /\ OtherFault(o)

C12_NonRetryableFaultRaises ==
  \A k \in 1..Len(responses) :
    /\ GraphQLErrorsFault(responses[k]) =>
         /\ k = Len(responses)
         /\ pc = "done"
         /\ result.kind = "raise"
         /\ result.tag \in {"QueryFormatError", "MondayAPIError"}
    /\ ComplexityFaultWithoutCooldown(responses[k]) =>
         /\ k = Len(responses)
         /\ pc = "done"
         /\ result.kind = "raise"
         /\ result.tag = "MondayAPIError"

(***************************************************************************)
(* C37.  For every max_retries >= 0, post_request ends with a response     *)
(* envelope or an explicit {'error': ...} result: with max_retries >= 1    *)
(* the statement after the retry loop is never reached, and with           *)
(* max_retries = 0 the call makes no transport call and returns the        *)
(* 'Max retries reached' error result.                                     *)
(***************************************************************************)
AfterLoopReachable == pc = "loop" /\ ~(attempt < max_retries)

C37_EndsWithEnvelopeOrErrorResult ==
  /\ pc = "done" =>
       /\ result.kind = "return"
       /\ result.tag \in {"response", "error"}
  /\ max_retries >= 1 => ~AfterLoopReachable
  /\ (max_retries = 0 /\ pc = "done") =>
       /\ transport_calls = 0
       /\ ReturnedMaxRetries

(***************************************************************************)
(* C40.  A payload with error_code 'ComplexityException' and no            *)
(* error_message key is handled like an unparseable message: it ends       *)
(* post_request with the fault result carrying the payload, after that one *)
(* transport call and with no sleep after it, and no exception leaves      *)
(* the call.                                                               *)
(***************************************************************************)
ComplexityFaultWithoutMessage(o) ==
  HasComplexityCode(o) /\ "error_message" \notin o.payload.keys

C40_MissingMessageIsTerminalFault ==
  \A k \in 1..Len(responses) :
    ComplexityFaultWithoutMessage(responses[k]) =>
      /\ k = Len(responses)
      /\ pc = "done"
      /\ result.kind # "raise"
      /\ ReturnedErrorPayload(responses[k].payload)
      /\ transport_calls = k
      /\ Len(sleeps) = k - 1

(***************************************************************************)
(* Pagination: paginated_item_request and its helpers                      *)
(* (src/monday/services/utils/pagination.py).                              *)
(***************************************************************************)
\* largest number of requests one traversal makes in the model
MaxRequests == 3

\* deepest nesting of wrapper selections around the items block of a query
MaxWrappers == 3

\* Python values.  A dict or a list keeps its entries in order in items, each
\* entry a record [k, val]; a list entry has k = "".
PyNone == [t |-> "null", v |-> "", items |-> <<>>]

PyStr(text) == [t |-> "str", v |-> text, items |-> <<>>]

KV(key, value) == [k |-> key, val |-> value]

PyDict(entries) == [t |-> "dict", v |-> "", items |-> entries]

PyList(elements) ==
  [t |-> "list", v |-> "",
   items |-> [i \in 1..Len(elements) |-> KV("", elements[i])]]

\* the elements of a list value as a sequence
Elements(l) == [i \in 1..Len(l.items) |-> l.items[i].val]

\* key in d, for a dict d
HasKey(d, key) == \E i \in 1..Len(d.items) : d.items[i].k = key

\* d[key], for a dict d that has the key
Get(d, key) == d.items[CHOOSE i \in 1..Len(d.items) : d.items[i].k = key].val

\* bool(x): None, '' and empty containers are false
Truthy(x) ==
  CASE x.t = "null" -> FALSE
    [] x.t = "str" -> x.v # ""
    [] OTHER -> x.items # <<>>

\* str.find: the 1-based position of the first occurrence of t in s, 0 when
\* there is none (Python's -1)
RECURSIVE FindFrom(_, _, _)
FindFrom(s, t, i) ==
  IF i + Len(t) - 1 > Len(s) THEN 0
  ELSE IF StartsWithAt(s, i, t) THEN i
  ELSE FindFrom(s, t, i + 1)

Find(s, t) == FindFrom(s, t, 1)

\* str.replace(old, new), left to right over non-overlapping occurrences
RECURSIVE ReplaceFrom(_, _, _, _)
ReplaceFrom(s, old, new, i) ==
  IF i > Len(s) THEN ""
  ELSE IF StartsWithAt(s, i, old)
       THEN new \o ReplaceFrom(s, old, new, i + Len(old))
       ELSE CharAt(s, i) \o ReplaceFrom(s, old, new, i + 1)

Replace(s, old, new) == ReplaceFrom(s, old, new, 1)

Whitespace == {" ", "\n", "\t", "\r"}

RECURSIVE LStrip(_)
LStrip(s) ==
  IF Len(s) > 0 /\ CharAt(s, 1) \in Whitespace
  THEN LStrip(SubSeq(s, 2, Len(s))) ELSE s

RECURSIVE RStrip(_)
RStrip(s) ==
  IF Len(s) > 0 /\ CharAt(s, Len(s)) \in Whitespace
  THEN RStrip(SubSeq(s, 1, Len(s) - 1)) ELSE s

\* str.strip()
Strip(s) == LStrip(RStrip(s))

\* lines 142-148: the for loop over query[start_index:], as
\* [brace_count, end_index] when it ends; end_index is the 1-based position
\* of the closing brace, or start_index - 1 when the loop never breaks
RECURSIVE ScanBraces_FirstClose(_, _, _, _)
ScanBraces_FirstClose(q, i, brace_count, start_index) ==
  IF i > Len(q) THEN [brace_count |-> brace_count, end_index |-> start_index - 1]
  ELSE IF CharAt(q, i) = "}" THEN [brace_count |-> 0, end_index |-> i]
  ELSE ScanBraces_FirstClose(q, i + 1, brace_count, start_index)

RECURSIVE ScanBraces(_, _, _, _)
ScanBraces(q, i, brace_count, start_index) ==
  IF i > Len(q) THEN [brace_count |-> brace_count, end_index |-> start_index - 1]
  ELSE IF CharAt(q, i) = "{"
       THEN ScanBraces(q, i + 1, brace_count + 1, start_index)
  ELSE IF CharAt(q, i) = "}"
       THEN IF brace_count - 1 = 0
            THEN [brace_count |-> 0, end_index |-> i]
            ELSE ScanBraces(q, i + 1, brace_count - 1, start_index)
  ELSE ScanBraces(q, i + 1, brace_count, start_index)

\* lines 116-157
extract_items_from_query(q) ==
  LET start_index == Find(q, "items {")
      scan == ScanBraces(q, start_index, 0, start_index)
  IN  IF start_index = 0 THEN PyNone
      ELSE IF scan.brace_count # 0 THEN PyNone
      ELSE PyStr(Strip(Replace(SubSeq(q, start_index, scan.end_index),
                               "cursor", "")))

\* lines 193-202: the f-string of the continuation query
ContinuationQuery(lim, cur, items_value) ==
  "\n                query {\n                    next_items_page (\n"
  \o "                        limit: " \o Str(lim) \o ",\n"
  \o "                        cursor: \"" \o cur \o "\"\n"
  \o "                    ) {\n                        cursor "
  \o items_value \o "\n                    }\n                }\n            "

\* lines 61-86: depth-first, the value of the first key 'cursor' met in a
\* dict ends the search of that dict even when it is None
RECURSIVE extract_cursor_from_response(_)
RECURSIVE CursorInEntries_SkipNull(_, _)
CursorInEntries_SkipNull(d, i) ==
  IF i > Len(d.items) THEN PyNone
  ELSE IF d.t = "dict" /\ d.items[i].k = "cursor" /\ d.items[i].val # PyNone
       THEN d.items[i].val
  ELSE LET found == extract_cursor_from_response(d.items[i].val)
       IN  IF found # PyNone THEN found ELSE CursorInEntries_SkipNull(d, i + 1)

RECURSIVE CursorInEntries(_, _)
CursorInEntries(d, i) ==
  IF i > Len(d.items) THEN PyNone
  ELSE IF d.t = "dict" /\ d.items[i].k = "cursor" THEN d.items[i].val
  ELSE LET found == extract_cursor_from_response(d.items[i].val)
       IN  IF found # PyNone THEN found ELSE CursorInEntries(d, i + 1)

extract_cursor_from_response(response) ==
  IF response.t \in {"dict", "list"} THEN CursorInEntries(response, 1)
  ELSE PyNone

\* lines 89-113: depth-first, every list under a key 'items' is taken whole
\* and not searched further
RECURSIVE extract_items_from_response(_)
RECURSIVE ItemsInEntries_FirstListOnly(_, _)
ItemsInEntries_FirstListOnly(d, i) ==
  IF i > Len(d.items) THEN <<>>
  ELSE LET e == d.items[i]
           here == IF d.t = "dict" /\ e.k = "items" /\ e.val.t = "list"
                   THEN Elements(e.val)
                   ELSE IF e.val.t \in {"dict", "list"}
                        THEN ItemsInEntries_FirstListOnly(e.val, 1)
                        ELSE <<>>
       IN  IF here # <<>> THEN here ELSE ItemsInEntries_FirstListOnly(d, i + 1)

RECURSIVE ItemsInEntries(_, _)
ItemsInEntries(d, i) ==
  IF i > Len(d.items) THEN <<>>
  ELSE LET e == d.items[i]
       IN  (IF d.t = "dict" /\ e.k = "items" /\ e.val.t = "list"
            THEN Elements(e.val)
            ELSE extract_items_from_response(e.val))
           \o ItemsInEntries(d, i + 1)

extract_items_from_response(data) ==
  IF data.t \in {"dict", "list"} THEN ItemsInEntries(data, 1) ELSE <<>>

\* what a step of the traversal yields: it goes on with new values of the
\* locals, or it raises
Ok(items, cur) == [kind |-> "ok", tag |-> "", items |-> items, cursor |-> cur]

Raised(exc) == [kind |-> "raise", tag |-> exc, items |-> <<>>, cursor |-> PyNone]

\* src/monday/services/utils/error_handlers.py lines 30-34: exc is the
\* exception raised ("" when query_result is returned), json the json
\* attribute of MondayAPIError (None when json_data is not passed), value
\* the value returned
check_query_result(query_result) ==
  IF \E i \in 1..Len(query_result.items) :
       Contains(Lower(query_result.items[i].k), "error")
  THEN IF HasKey(query_result, "error")
       THEN [exc |-> "MondayAPIError", json |-> Get(query_result, "error"),
             value |-> PyNone]
       ELSE [exc |-> "KeyError", json |-> PyNone, value |-> PyNone]
  ELSE IF ~HasKey(query_result, "data")
       THEN [exc |-> "MondayAPIError", json |-> PyNone, value |-> PyNone]
  ELSE [exc |-> "", json |-> PyNone, value |-> query_result]

\* line 218: next((b for b in combined_items if b['board_id'] == id), None)
\* as the position of the entry found, 0 for None, -1 when an entry met on
\* the way has no key 'board_id' (KeyError)
RECURSIVE ExistingBoard(_, _, _)
ExistingBoard(combined, id, i) ==
  IF i > Len(combined) THEN 0
  ELSE IF ~HasKey(combined[i], "board_id") THEN -1
  ELSE IF Get(combined[i], "board_id") = id THEN i
  ELSE ExistingBoard(combined, id, i + 1)

\* the entry's items are assigned, not extended
ExtendBoard_Replaces(entry, more) ==
  PyDict(<<KV("board_id", Get(entry, "board_id")), KV("items", PyList(more))>>)

\* lines 219-220: existing_board['items'].extend(board_data['items'])
ExtendBoard(entry, more) ==
  PyDict(<<KV("board_id", Get(entry, "board_id")),
           KV("items", PyList(Elements(Get(entry, "items")) \o more))>>)

\* lines 210-222: the for loop over data['data']['boards'] from board i on
RECURSIVE BoardsLoop(_, _, _)
BoardsLoop(boards, i, combined) ==
  IF i > Len(boards) THEN Ok(combined, PyNone)
  ELSE LET board == boards[i] IN
       IF ~HasKey(board, "items_page") THEN Raised("KeyError")
       \* PaginationError.__init__ takes no keyword json
       ELSE IF Get(board, "items_page") = PyNone THEN Raised("TypeError")
       ELSE IF ~HasKey(board, "id") THEN Raised("KeyError")
       ELSE IF ~HasKey(Get(board, "items_page"), "items") THEN Raised("KeyError")
       ELSE LET items == Elements(Get(Get(board, "items_page"), "items"))
                at == ExistingBoard(combined, Get(board, "id"), 1)
            IN  IF at = -1 THEN Raised("KeyError")
                ELSE IF at = 0
                THEN BoardsLoop(boards, i + 1,
                       Append(combined,
                              PyDict(<<KV("board_id", Get(board, "id")),
                                       KV("items", PyList(items))>>)))
                ELSE BoardsLoop(boards, i + 1,
                       [combined EXCEPT ![at] = ExtendBoard(combined[at], items)])

\* lines 209-231: one page, from the test for 'boards' to the new cursor
ProcessPage(data, combined) ==
  LET inner == Get(data, "data") IN
  IF inner.t # "dict" THEN Raised("TypeError")
  ELSE IF HasKey(inner, "boards")
  THEN IF Get(inner, "boards").t # "list" THEN Raised("TypeError")
       ELSE LET loop == BoardsLoop(Elements(Get(inner, "boards")), 1, combined)
            IN  IF loop.kind = "raise" THEN loop
                ELSE Ok(loop.items, extract_cursor_from_response(data))
  ELSE LET items == extract_items_from_response(data) IN
       IF items = <<>>
       THEN IF ~HasKey(data, "data") THEN Raised("PaginationError")
            ELSE Ok(combined, extract_cursor_from_response(data))
       ELSE Ok(combined \o items, extract_cursor_from_response(data))

\* What client.post_request produces for one query: it returns a dict (the
\* response, or {'error': ...} for a fault) or it raises.
Returned(value) == [kind |-> "return", tag |-> "", value |-> value]

GovernorRaised(exc) == [kind |-> "raise", tag |-> exc, value |-> PyNone]

Item(id) == PyDict(<<KV("id", PyStr(id))>>)

ItemLists == {<<>>, <<Item("a"), Item("b")>>, <<Item("c")>>}

\* the 'cursor' entry of an items page: absent, null, or a string
CursorEntries ==
  {<<>>, <<KV("cursor", PyNone)>>, <<KV("cursor", PyStr(""))>>,
   <<KV("cursor", PyStr("abc"))>>, <<KV("cursor", PyStr("start"))>>}

ItemsPage(cursor_entry, items) ==
  PyDict(cursor_entry \o <<KV("items", PyList(items))>>)

Data(entries) == PyDict(<<KV("data", PyDict(entries))>>)

Board(id_entry, items_page) ==
  PyDict(id_entry \o <<KV("items_page", items_page)>>)

\* responses to a next_items_page or items_page_by_column_values query
NextItemsPages ==
  {Data(<<KV("next_items_page", ItemsPage(c, items))>>) :
     c \in {<<KV("cursor", PyNone)>>, <<KV("cursor", PyStr("abc"))>>},
     items \in ItemLists}
  \cup
  {Data(<<KV("items_page_by_column_values", ItemsPage(c, <<Item("c")>>))>>) :
     c \in CursorEntries \ {<<KV("cursor", PyStr("abc"))>>}}

\* responses to a boards query
BoardsPages ==
  {Data(<<KV("boards", PyList(<<Board(<<KV("id", PyStr("1"))>>,
                                      ItemsPage(c, items))>>))>>) :
     c \in {<<KV("cursor", PyNone)>>, <<KV("cursor", PyStr("abc"))>>},
     items \in {<<Item("a"), Item("b")>>}}
  \cup
  {\* a board without items
   Data(<<KV("boards", PyList(<<Board(<<KV("id", PyStr("1"))>>,
      ItemsPage(<<KV("cursor", PyNone)>>, <<>>))>>))>>),
   \* the board's id was not selected
   Data(<<KV("boards", PyList(<<Board(<<>>,
      ItemsPage(<<KV("cursor", PyStr("abc"))>>, <<Item("a"), Item("b")>>))>>))>>),
   \* a board without an items page
   Data(<<KV("boards", PyList(<<Board(<<KV("id", PyStr("1"))>>, PyNone)>>))>>),
   \* two boards
   Data(<<KV("boards", PyList(<<
      Board(<<KV("id", PyStr("1"))>>,
            ItemsPage(<<KV("cursor", PyNone)>>, <<Item("a"), Item("b")>>)),
      Board(<<KV("id", PyStr("2"))>>,
            ItemsPage(<<KV("cursor", PyNone)>>, <<Item("c")>>))>>))>>)}

\* other responses without a key naming an error
OtherPages ==
  {PyDict(<<KV("account_id", PyStr("1"))>>),
   PyDict(<<KV("data", PyNone)>>),
   Data(<<>>),
   Data(<<KV("next_items_page", PyDict(<<KV("cursor", PyNone)>>))>>)}

\* responses with item lists and cursors at several places
NestedPages ==
  {\* item lists at two depths; the first cursor is null, a later one is not
   Data(<<KV("next_items_page", ItemsPage(<<KV("cursor", PyNone)>>, <<Item("c")>>)),
          KV("groups", PyList(<<PyDict(<<KV("items_page",
             PyDict(<<KV("items", PyList(<<Item("a"), Item("b")>>)),
                      KV("cursor", PyStr("abc"))>>))>>)>>))>>),
   \* item lists under two parents; the first cursor is empty
   Data(<<KV("groups", PyList(<<
      PyDict(<<KV("items_page",
                  ItemsPage(<<KV("cursor", PyStr(""))>>, <<Item("a"), Item("b")>>))>>),
      PyDict(<<KV("items_page",
                  ItemsPage(<<KV("cursor", PyStr("abc"))>>, <<Item("c")>>))>>)>>))>>),
   \* an item record that holds an items page of its own
   Data(<<KV("next_items_page", ItemsPage(<<KV("cursor", PyNone)>>,
      <<PyDict(<<KV("id", PyStr("a")),
                 KV("board", PyDict(<<KV("items_page",
                    ItemsPage(<<KV("cursor", PyStr("abc"))>>, <<Item("b")>>))>>))>>)>>))>>)}

Pages == NextItemsPages \cup BoardsPages \cup OtherPages \cup NestedPages

\* src/monday/client.py lines 266, 276, 283, 285: the dict of a fault
FaultDicts ==
  {PyDict(<<KV("error", PyStr("Max retries reached. Last error: Complexity limit exceeded, retrying after 12 seconds..."))>>),
   PyDict(<<KV("error", PyDict(<<KV("errors", PyList(<<PyStr("Field 'x' doesn't exist")>>))>>))>>)}

GovernorResults ==
  {Returned(d) : d \in Pages \cup FaultDicts}
  \cup {GovernorRaised("KeyError"), GovernorRaised("TypeError")}

\* Queries the callers pass: the items block inside n wrapper selections
\* (src/monday/services/boards.py builds 'boards (...) { id items_page (...)
\* { cursor items { ... } } }'), and queries the extraction has to refuse.
WrapperName(n) ==
  CASE n = 1 -> "items_page (limit: 25)"
    [] n = 2 -> "boards (ids: 1)"
    [] n = 3 -> "query"
    [] OTHER -> ""

RECURSIVE NestedQuery(_)
NestedQuery(n) ==
  IF n = 0 THEN "items { id name }"
  ELSE WrapperName(n) \o " { "
       \o (IF n = 1 THEN "cursor " ELSE IF n = 2 THEN "id " ELSE "")
       \o NestedQuery(n - 1) \o " }"

OtherQueries ==
  {"boards { items_page { cursor items { id } } }",
   "query { next_items_page { items { id cursor column_values { id text } } cursor } }",
   \* a field whose name contains the letters cursor
   "query { next_items_page { cursor items { id cursor_id } } }",
   \* no items block
   "query { boards (ids: 1) { id name } }",
   \* no space between items and its brace
   "query { boards { items_page { cursor items{ id } } } }",
   \* the items block is never closed
   "query { boards { items_page { cursor items { id column_values { id }"}

Queries == {NestedQuery(n) : n \in 0..MaxWrappers} \cup OtherQueries

\* line 163: the default of limit
DefaultLimit == 25

StartingCursors == {PyNone, PyStr(""), PyStr("abc"), PyStr("start")}

NoPageResult == [kind |-> "none", tag |-> "", value |-> PyNone]

\* the governor is not part of a traversal's state
GovernorIdle ==
  /\ max_retries = 0
  /\ pc = "idle"
  /\ attempt = 0
  /\ response_data = [bound |-> FALSE, value |-> NoPayload]
  /\ sleep_for = 0
  /\ result = NoResult
  /\ transport_calls = 0
  /\ sleeps = <<>>
  /\ responses = <<>>

\* lines 160-182: the call, up to the while statement
PaginateInit ==
  /\ GovernorIdle
  /\ page_pc = "top"
  /\ query \in Queries
  /\ limit = DefaultLimit
  /\ starting_cursor \in StartingCursors
  /\ cursor = IF Truthy(starting_cursor) THEN starting_cursor ELSE PyStr("start")
  /\ combined_items = <<>>
  /\ page_result = NoPageResult
  /\ sent = <<>>
  /\ received = <<>>
  /\ ConcurrentIdle
  /\ ServiceIdle
  /\ ThreadsIdle

\* lines 185-186 and 204: the caller's query goes out as it is
SendInitialQuery ==
  /\ page_pc = "top"
  /\ Len(sent) < MaxRequests
  /\ cursor = PyStr("start")
  /\ sent' = Append(sent, query)
  /\ page_pc' = "await"
  /\ UNCHANGED <<query, limit, starting_cursor, cursor, combined_items,
                 page_result, received>>
  /\ UNCHANGED outside_pagination

\* lines 187-204: a continuation query goes out
SendContinuation_WithoutWaiting ==
  /\ page_pc \in {"top", "await"}
  /\ Len(sent) < MaxRequests
  /\ cursor # PyStr("start")
  /\ LET items_value == extract_items_from_query(query) IN
       /\ Truthy(items_value)
       /\ sent' = Append(sent, ContinuationQuery(limit, cursor.v, items_value.v))
  /\ page_pc' = "await"
  /\ UNCHANGED <<query, limit, starting_cursor, cursor, combined_items,
                 page_result, received>>
  /\ UNCHANGED outside_pagination

SendContinuation ==
  /\ page_pc = "top"
  /\ Len(sent) < MaxRequests
  /\ cursor # PyStr("start")
  /\ LET items_value == extract_items_from_query(query) IN
       /\ Truthy(items_value)
       /\ sent' = Append(sent, ContinuationQuery(limit, cursor.v, items_value.v))
  /\ page_pc' = "await"
  /\ UNCHANGED <<query, limit, starting_cursor, cursor, combined_items,
                 page_result, received>>
  /\ UNCHANGED outside_pagination

\* lines 188-192: the items block of the query cannot be extracted
ExtractionFails ==
  /\ page_pc = "top"
  /\ cursor # PyStr("start")
  /\ ~Truthy(extract_items_from_query(query))
  /\ page_result' = [kind |-> "raise", tag |-> "PaginationError", value |-> PyNone]
  /\ page_pc' = "done"
  /\ UNCHANGED <<query, limit, starting_cursor, cursor, combined_items, sent,
                 received>>
  /\ UNCHANGED outside_pagination

\* line 205: 'error' in response_data
IsFaultDict_ErrorsKey(response) == HasKey(response, "errors")

IsFaultDict(response) == HasKey(response, "error")

\* lines 204-206: the governor reports a fault and the traversal returns it
FaultReturned ==
  /\ page_pc = "await"
  /\ \E r \in GovernorResults :
       /\ r.kind = "return"
       /\ IsFaultDict(r.value)
       /\ received' = Append(received, r)
       /\ page_result' = [kind |-> "return", tag |-> "", value |-> r.value]
  /\ page_pc' = "done"
  /\ UNCHANGED <<query, limit, starting_cursor, cursor, combined_items, sent>>
  /\ UNCHANGED outside_pagination

\* line 204: client.post_request raises and nothing here catches it
GovernorException ==
  /\ page_pc = "await"
  /\ \E r \in GovernorResults :
       /\ r.kind = "raise"
       /\ received' = Append(received, r)
       /\ page_result' = [kind |-> "raise", tag |-> r.tag, value |-> PyNone]
  /\ page_pc' = "done"
  /\ UNCHANGED <<query, limit, starting_cursor, cursor, combined_items, sent>>
  /\ UNCHANGED outside_pagination

\* the outcome of lines 207-231 for a response without a key 'error'
HandleResponse(response, combined) ==
  IF check_query_result(response).exc # ""
  THEN Raised(check_query_result(response).exc)
  ELSE ProcessPage(response, combined)

\* lines 207-229: check_query_result or the handling of the page raises
PageRaises ==
  /\ page_pc = "await"
  /\ \E r \in GovernorResults :
       /\ r.kind = "return"
       /\ ~IsFaultDict(r.value)
       /\ HandleResponse(r.value, combined_items).kind = "raise"
       /\ received' = Append(received, r)
       /\ page_result' = [kind |-> "raise",
                          tag |-> HandleResponse(r.value, combined_items).tag,
                          value |-> PyNone]
  /\ page_pc' = "done"
  /\ UNCHANGED <<query, limit, starting_cursor, cursor, combined_items, sent>>
  /\ UNCHANGED outside_pagination

\* lines 207-233: the page is taken in and its cursor asks for another page
NextPage ==
  /\ page_pc = "await"
  /\ \E r \in GovernorResults :
       /\ r.kind = "return"
       /\ ~IsFaultDict(r.value)
       /\ LET page == HandleResponse(r.value, combined_items) IN
            /\ page.kind = "ok"
            /\ Truthy(page.cursor)
            /\ combined_items' = page.items
            /\ cursor' = page.cursor
       /\ received' = Append(received, r)
  /\ page_pc' = "top"
  /\ UNCHANGED <<query, limit, starting_cursor, page_result, sent>>
  /\ UNCHANGED outside_pagination

\* lines 207-237: the page is taken in, its cursor ends the loop and the
\* accumulated items are returned
LastPage ==
  /\ page_pc = "await"
  /\ \E r \in GovernorResults :
       /\ r.kind = "return"
       /\ ~IsFaultDict(r.value)
       /\ LET page == HandleResponse(r.value, combined_items) IN
            /\ page.kind = "ok"
            /\ ~Truthy(page.cursor)
            /\ combined_items' = page.items
            /\ cursor' = page.cursor
            /\ page_result' = [kind |-> "return", tag |-> "",
                               value |-> PyDict(<<KV("items", PyList(page.items))>>)]
       /\ received' = Append(received, r)
  /\ page_pc' = "done"
  /\ UNCHANGED <<query, limit, starting_cursor, sent>>
  /\ UNCHANGED outside_pagination

PaginateNext ==
  \/ SendInitialQuery
  \/ SendContinuation
  \/ ExtractionFails
  \/ FaultReturned
  \/ GovernorException
  \/ PageRaises
  \/ NextPage
  \/ LastPage

SpecPaginate == PaginateInit /\ [][PaginateNext]_vars

(***************************************************************************)
(* Vocabulary of the pagination properties: what a page response carries,  *)
(* read at the place the provider puts it.                                 *)
(***************************************************************************)
\* the single entry of the response's data object
Root(r) == Get(r.value, "data").items[1]

HasRoot(r) ==
  /\ r.kind = "return"
  /\ HasKey(r.value, "data")
  /\ Get(r.value, "data").t = "dict"
  /\ Len(Get(r.value, "data").items) = 1

\* a page of items: {'data': {<root>: {'cursor': ..., 'items': [...]}}}
WellFormedItemsPage(r) ==
  /\ HasRoot(r)
  /\ Root(r).k \in {"next_items_page", "items_page_by_column_values"}
  /\ HasKey(Root(r).val, "items")

\* a page of boards, each with its page of items:
\* {'data': {'boards': [{'items_page': {'cursor': ..., 'items': [...]}}]}}
WellFormedBoardsPage(r) ==
  /\ HasRoot(r)
  /\ Root(r).k = "boards"
  /\ \A i \in 1..Len(Root(r).val.items) :
       LET board == Root(r).val.items[i].val IN
       /\ HasKey(board, "items_page")
       /\ Get(board, "items_page").t = "dict"
       /\ HasKey(Get(board, "items_page"), "items")

FaultFreePage(r) == WellFormedItemsPage(r) \/ WellFormedBoardsPage(r)

\* the cursor an items page object carries, None when it carries none
CursorOf(items_page) ==
  IF HasKey(items_page, "cursor") THEN Get(items_page, "cursor") ELSE PyNone

\* the item records of the boards of a page from board i on, in order
RECURSIVE BoardItemsFrom(_, _)
BoardItemsFrom(boards, i) ==
  IF i > Len(boards) THEN <<>>
  ELSE Elements(Get(Get(boards[i], "items_page"), "items"))
       \o BoardItemsFrom(boards, i + 1)

\* the first cursor of the boards of a page that is not None
RECURSIVE BoardCursorFrom(_, _)
BoardCursorFrom(boards, i) ==
  IF i > Len(boards) THEN PyNone
  ELSE IF CursorOf(Get(boards[i], "items_page")) # PyNone
       THEN CursorOf(Get(boards[i], "items_page"))
       ELSE BoardCursorFrom(boards, i + 1)

\* the item records of a fault-free page, in the order the provider gave
PageItems(r) ==
  IF Root(r).k = "boards" THEN BoardItemsFrom(Elements(Root(r).val), 1)
  ELSE Elements(Get(Root(r).val, "items"))

\* the cursor of a fault-free page
PageCursor(r) ==
  IF Root(r).k = "boards" THEN BoardCursorFrom(Elements(Root(r).val), 1)
  ELSE CursorOf(Root(r).val)

\* a cursor that asks for another page
NonEmptyCursor(c) == c.t = "str" /\ c.v # ""

\* the items of the pages received from page k on, in page order
RECURSIVE ItemsOfPagesFrom(_)
ItemsOfPagesFrom(k) ==
  IF k > Len(received) THEN <<>>
  ELSE PageItems(received[k]) \o ItemsOfPagesFrom(k + 1)

\* the call returned {'items': items}
ReturnedItems(items) ==
  /\ page_result.kind = "return"
  /\ page_result.value = PyDict(<<KV("items", PyList(items))>>)

\* a traversal over fault-free pages has ended on a page whose cursor is
\* null, absent or empty
FaultFreeTraversalEnded ==
  /\ page_pc = "done"
  /\ received # <<>>
  /\ \A k \in 1..Len(received) : FaultFreePage(received[k])
  /\ \A k \in 1..(Len(received) - 1) : NonEmptyCursor(PageCursor(received[k]))
  /\ ~NonEmptyCursor(PageCursor(received[Len(received)]))

(* C13.  For any fault-free sequence of page responses that ends with a    *)
(* null or absent cursor, paginated_item_request returns, and the 'items'  *)
(* list it returns is the concatenation of every page's items in page      *)
(* order.                                                                  *)
C13_ItemsAreConcatenation ==
  FaultFreeTraversalEnded => ReturnedItems(ItemsOfPagesFrom(1))

\* the query selects boards with their items pages
BoardsShapedQuery(q) ==
  /\ Contains(q, "boards")
  /\ Contains(q, "items_page")
  /\ Contains(q, "cursor items {")

(* C14.  For an initial query of the shape boards { items_page { cursor    *)
(* items { ... } } }, answered by a boards page and then by pages of       *)
(* next_items_page, paginated_item_request returns the flat list of all    *)
(* the pages' item records and has made exactly one request per page.      *)
C14_BoardsQueryGivesFlatList ==
  (/\ FaultFreeTraversalEnded
   /\ starting_cursor = PyNone
   /\ BoardsShapedQuery(query)
   /\ WellFormedBoardsPage(received[1])
   /\ \A k \in 2..Len(received) : WellFormedItemsPage(received[k])) =>
    /\ ReturnedItems(ItemsOfPagesFrom(1))
    /\ Len(sent) = Len(received)

\* the queries above whose items block cannot be extracted
QueriesWithoutItemsBlock ==
  {"query { boards (ids: 1) { id name } }",
   "query { boards { items_page { cursor items{ id } } } }",
   "query { boards { items_page { cursor items { id column_values { id }"}

\* the text is a continuation query that resumes from the cursor c
ContinuesFrom(text, c) ==
  /\ Contains(text, "next_items_page")
  /\ Contains(text, "cursor: \"" \o c \o "\"")

\* the pages received so far whose cursor asks for another page
PagesWithNonEmptyCursor ==
  {k \in 1..Len(received) : NonEmptyCursor(PageCursor(received[k]))}

(* C15.  For a query whose items block can be extracted and fault-free     *)
(* pages of items: after a page whose cursor is null, absent or empty the  *)
(* traversal has returned and no further request is made; after a page     *)
(* with a non-empty cursor the traversal does not end before its next      *)
(* request, and that request is a continuation query resuming from the     *)
(* page's cursor; a traversal that has returned after k pages with a       *)
(* non-empty cursor has made exactly k+1 requests.                         *)
C15_CursorDecidesNextRequest ==
  (/\ query \notin QueriesWithoutItemsBlock
   /\ \A k \in 1..Len(received) : WellFormedItemsPage(received[k])) =>
    /\ \A k \in 1..Len(received) :
         IF NonEmptyCursor(PageCursor(received[k]))
         THEN /\ ~(page_pc = "done" /\ Len(sent) = k)
              /\ Len(sent) > k =>
                   ContinuesFrom(sent[k + 1], PageCursor(received[k]).v)
         ELSE /\ page_pc = "done"
              /\ page_result.kind = "return"
              /\ Len(sent) = k
    /\ (page_pc = "done" /\ page_result.kind = "return") =>
         Len(sent) = Cardinality(PagesWithNonEmptyCursor) + 1

\* what the governor hands back for a fault: a dict under the one key 'error'
GovernorFault(r) ==
  /\ r.kind = "return"
  /\ Len(r.value.items) = 1
  /\ r.value.items[1].k = "error"

(* C16.  When the governor reports a fault on a page, that page is the     *)
(* last: no further request is issued and paginated_item_request returns   *)
(* the fault dict itself, which carries none of the items accumulated from *)
(* earlier pages.                                                          *)
C16_FaultReturnedImmediately ==
  \A k \in 1..Len(received) :
    GovernorFault(received[k]) =>
      /\ k = Len(received)
      /\ Len(sent) = k
      /\ page_pc = "done"
      /\ page_result.kind = "return"
      /\ page_result.value = received[k].value
      /\ ~HasKey(page_result.value, "items")

\* a fault arrives on the second page, after items were accumulated
C16_Witness ==
  /\ Len(received) = 2
  /\ GovernorFault(received[2])
  /\ combined_items # <<>>
  /\ page_pc = "done"

(* C17.  A well-formed, fault-free page that yields no items but carries a *)
(* non-empty cursor ends the traversal with PaginationError.               *)
C17_EmptyPageWithCursorRaises ==
  \A k \in 1..Len(received) :
    (/\ WellFormedItemsPage(received[k])
     /\ PageItems(received[k]) = <<>>
     /\ NonEmptyCursor(PageCursor(received[k]))) =>
      /\ k = Len(received)
      /\ page_pc = "done"
      /\ page_result.kind = "raise"
      /\ page_result.tag = "PaginationError"

(* C18.  When the first page response has zero items and a null cursor,    *)
(* paginated_item_request returns {'items': []} after exactly one request  *)
(* and raises nothing.                                                     *)
C18_EmptyFirstPageReturnsEmptyList ==
  (/\ Len(received) >= 1
   /\ FaultFreePage(received[1])
   /\ PageItems(received[1]) = <<>>
   /\ PageCursor(received[1]) = PyNone) =>
    /\ page_pc = "done"
    /\ ReturnedItems(<<>>)
    /\ Len(sent) = 1

\* the caller passed a cursor to resume from
StartingCursorSupplied == NonEmptyCursor(starting_cursor)

(* C19.  For a query whose items block cannot be extracted: no             *)
(* continuation query is ever sent, at most one request is made and none   *)
(* when a starting cursor was supplied, and the traversal ends with        *)
(* PaginationError once a page's cursor asks for a continuation.           *)
C19_ExtractionFailureRaisesEarly ==
  query \in QueriesWithoutItemsBlock =>
    /\ \A k \in 1..Len(sent) : sent[k] = query
    /\ Len(sent) <= 1
    /\ StartingCursorSupplied => sent = <<>>
    /\ (/\ page_pc = "done"
        /\ received # <<>>
        /\ WellFormedItemsPage(received[Len(received)])
        /\ NonEmptyCursor(PageCursor(received[Len(received)]))) =>
         (page_result.kind = "raise" /\ page_result.tag = "PaginationError")

\* the positions of the character c in s
Positions(s, c) == {i \in 1..Len(s) : CharAt(s, i) = c}

\* every brace of s is matched: no prefix closes more braces than it opens
\* and the whole text opens as many as it closes
Balanced(s) ==
  LET opens == Positions(s, "{")
      closes == Positions(s, "}")
  IN  /\ Cardinality(opens) = Cardinality(closes)
      /\ \A n \in closes :
           Cardinality({i \in closes : i <= n})
             <= Cardinality({i \in opens : i < n})

\* the query is 'items { id name }' inside balanced wrapper selections
IsWrappedItemsBlock(q) ==
  /\ Balanced(q)
  /\ Contains(q, "items { id name }")
  /\ \E n \in 0..MaxWrappers : q = NestedQuery(n)

OnlyItemTreesReceived ==
  /\ received # <<>>
  /\ \A k \in 1..Len(received) :
       /\ received[k].kind = "return"
       /\ HasKey(received[k].value, "data")
       /\ Get(received[k].value, "data").t = "dict"
       /\ ~HasKey(Get(received[k].value, "data"), "boards")

\* every list stored under a key 'items' anywhere in x, lists inside the
\* records of such a list included, in depth-first order
RECURSIVE EveryItemsList(_)
RECURSIVE EveryItemsListFrom(_, _)
EveryItemsListFrom(x, i) ==
  IF i > Len(x.items) THEN <<>>
  ELSE (IF x.t = "dict" /\ x.items[i].k = "items" /\ x.items[i].val.t = "list"
        THEN Elements(x.items[i].val) ELSE <<>>)
       \o EveryItemsList(x.items[i].val)
       \o EveryItemsListFrom(x, i + 1)

EveryItemsList(x) == EveryItemsListFrom(x, 1)

\* the lists stored under a key 'items' in x that do not lie inside another
\* such list, in depth-first order
RECURSIVE OutermostItemsLists(_)
RECURSIVE OutermostItemsListsFrom(_, _)
OutermostItemsListsFrom(x, i) ==
  IF i > Len(x.items) THEN <<>>
  ELSE (IF x.t = "dict" /\ x.items[i].k = "items" /\ x.items[i].val.t = "list"
        THEN Elements(x.items[i].val)
        ELSE OutermostItemsLists(x.items[i].val))
       \o OutermostItemsListsFrom(x, i + 1)

OutermostItemsLists(x) == OutermostItemsListsFrom(x, 1)

RECURSIVE EveryItemsListOfPagesFrom(_)
EveryItemsListOfPagesFrom(k) ==
  IF k > Len(received) THEN <<>>
  ELSE EveryItemsList(received[k].value) \o EveryItemsListOfPagesFrom(k + 1)

RECURSIVE OutermostItemsListsOfPagesFrom(_)
OutermostItemsListsOfPagesFrom(k) ==
  IF k > Len(received) THEN <<>>
  ELSE OutermostItemsLists(received[k].value)
       \o OutermostItemsListsOfPagesFrom(k + 1)

(* C21 as stated.  What extract_items_from_response adds to the            *)
(* accumulator for a response is the concatenation, in depth-first order,  *)
(* of every list stored under a key 'items' at any depth.                  *)
C21_Original ==
  OnlyItemTreesReceived => combined_items = EveryItemsListOfPagesFrom(1)

(* C21.  What extract_items_from_response adds to the accumulator for a    *)
(* response is the concatenation, in depth-first order, of the lists       *)
(* stored under a key 'items' that do not lie inside another such list: a  *)
(* list found is taken whole and its records are not searched.             *)
C21_OutermostItemsListsConcatenated ==
  OnlyItemTreesReceived => combined_items = OutermostItemsListsOfPagesFrom(1)

\* a response with item lists at two depths was taken in after another page
C21_Witness ==
  /\ OnlyItemTreesReceived
  /\ Len(received) = 2
  /\ combined_items = <<Item("c"), Item("c"), Item("a"), Item("b")>>

\* the response received last has been taken in without an exception
LastResponseTakenIn ==
  /\ received # <<>>
  /\ received[Len(received)].kind = "return"
  /\ ~GovernorFault(received[Len(received)])
  /\ page_result.kind # "raise"

\* the first key 'cursor' of x in depth-first order, as [found, value]
RECURSIVE FirstCursorKey(_)
RECURSIVE FirstCursorKeyFrom(_, _)
FirstCursorKeyFrom(x, i) ==
  IF i > Len(x.items) THEN [found |-> FALSE, value |-> PyNone]
  ELSE IF x.t = "dict" /\ x.items[i].k = "cursor"
       THEN [found |-> TRUE, value |-> x.items[i].val]
  ELSE IF FirstCursorKey(x.items[i].val).found
       THEN FirstCursorKey(x.items[i].val)
       ELSE FirstCursorKeyFrom(x, i + 1)

FirstCursorKey(x) == FirstCursorKeyFrom(x, 1)

\* the depth-first search in which a null cursor ends the search of the
\* dict that holds it and of nothing else
RECURSIVE CursorPastNulls(_)
RECURSIVE CursorPastNullsFrom(_, _)
CursorPastNullsFrom(x, i) ==
  IF i > Len(x.items) THEN PyNone
  ELSE IF x.t = "dict" /\ x.items[i].k = "cursor" THEN x.items[i].val
  ELSE IF CursorPastNulls(x.items[i].val) # PyNone
       THEN CursorPastNulls(x.items[i].val)
       ELSE CursorPastNullsFrom(x, i + 1)

CursorPastNulls(x) == CursorPastNullsFrom(x, 1)

(* C22 as stated.  The cursor taken from a response is the value of the    *)
(* first key 'cursor' met in a depth-first walk, later cursors are not     *)
(* examined, and it is None when the tree has no key 'cursor'.             *)
C22_Original ==
  LastResponseTakenIn =>
    cursor = FirstCursorKey(received[Len(received)].value).value

(* C22.  The cursor taken from a response is None when the tree has no key *)
(* 'cursor', and the value of the first key 'cursor' met in a depth-first  *)
(* walk when that value is not None; a first cursor that is None ends only *)
(* the search of the dict that holds it, and the walk goes on with what    *)
(* follows that dict.                                                      *)
C22_FirstCursorThatIsNotNone ==
  LastResponseTakenIn =>
    LET first == FirstCursorKey(received[Len(received)].value) IN
    /\ ~first.found => cursor = PyNone
    /\ (first.found /\ first.value # PyNone) => cursor = first.value
    /\ cursor = CursorPastNulls(received[Len(received)].value)

\* the first cursor of the response is null and a later one was taken
C22_Witness ==
  /\ LastResponseTakenIn
  /\ FirstCursorKey(received[Len(received)].value).found
  /\ FirstCursorKey(received[Len(received)].value).value = PyNone
  /\ cursor = PyStr("abc")

(* C27.  One paginated_item_request call is strictly sequential: at most   *)
(* one request is outstanding at any time, a request is outstanding        *)
(* exactly while the call awaits the governor, and when the request for    *)
(* page k+1 is outstanding the response for page k has been received and   *)
(* the cursor of the call is the one extracted from it.                    *)
C27_OneRequestAtATime ==
  /\ Len(sent) \in {Len(received), Len(received) + 1}
  /\ page_pc = "await" <=> Len(sent) = Len(received) + 1
  /\ (page_pc = "await" /\ Len(sent) >= 2) =>
       /\ NonEmptyCursor(cursor)
       /\ cursor = CursorPastNulls(received[Len(sent) - 1].value)

\* the request for the third page is outstanding
C27_Witness ==
  /\ page_pc = "await"
  /\ Len(sent) = 3
  /\ Len(received) = 2

(* C32.  A boards page in which a board has a null items_page ends         *)
(* paginated_item_request with PaginationError: that response is the last  *)
(* and the call returns no result.                                         *)
\* a page of boards with a board whose items_page is null, the boards
\* before it carrying their id and their items
BoardWithNullItemsPage(r) ==
  /\ HasRoot(r)
  /\ Root(r).k = "boards"
  /\ Root(r).val.t = "list"
  /\ \E i \in 1..Len(Root(r).val.items) :
       /\ HasKey(Root(r).val.items[i].val, "items_page")
       /\ Get(Root(r).val.items[i].val, "items_page") = PyNone
       /\ \A j \in 1..(i - 1) :
            LET board == Root(r).val.items[j].val IN
            /\ HasKey(board, "id")
            /\ HasKey(board, "items_page")
            /\ Get(board, "items_page").t = "dict"
            /\ HasKey(Get(board, "items_page"), "items")

C32_NullItemsPageRaisesPaginationError ==
  \A k \in 1..Len(received) :
    BoardWithNullItemsPage(received[k]) =>
      /\ k = Len(received)
      /\ page_pc = "done"
      /\ page_result.kind = "raise"
      /\ page_result.tag = "PaginationError"

\* the boards of the k-th response
BoardsOf(k) == Elements(Root(received[k]).val)

\* every response received so far is a page of boards that carry their id
\* and their items
BoardsOnlyTraversal ==
  /\ received # <<>>
  /\ \A k \in 1..Len(received) :
       /\ WellFormedBoardsPage(received[k])
       /\ \A i \in 1..Len(BoardsOf(k)) : HasKey(BoardsOf(k)[i], "id")

\* the ids of the boards that arrived
ArrivedBoardIds ==
  UNION {{Get(BoardsOf(k)[i], "id") : i \in 1..Len(BoardsOf(k))}
           : k \in 1..Len(received)}

\* the items that arrived for the board id, from board i of response k on,
\* in arrival order
RECURSIVE ArrivedItemsFrom(_, _, _)
ArrivedItemsFrom(id, k, i) ==
  IF k > Len(received) THEN <<>>
  ELSE IF i > Len(BoardsOf(k)) THEN ArrivedItemsFrom(id, k + 1, 1)
  ELSE (IF Get(BoardsOf(k)[i], "id") = id
        THEN Elements(Get(Get(BoardsOf(k)[i], "items_page"), "items"))
        ELSE <<>>)
       \o ArrivedItemsFrom(id, k, i + 1)

\* the positions of the accumulator's entries for the board id
EntriesOf(id) ==
  {n \in 1..Len(combined_items) :
     /\ HasKey(combined_items[n], "board_id")
     /\ Get(combined_items[n], "board_id") = id}

(* C39.  In the accumulator built from boards-shaped responses every board *)
(* id has at most one entry, after any sequence of pages; the entry of a   *)
(* board id holds the items that arrived for that id, those of a later     *)
(* response appended after those of the earlier ones, and there is an      *)
(* entry for every board id that arrived and for no other.                 *)
C39_OneEntryPerBoardInArrivalOrder ==
  /\ \A n, m \in 1..Len(combined_items) :
       (/\ HasKey(combined_items[n], "board_id")
        /\ HasKey(combined_items[m], "board_id")
        /\ Get(combined_items[n], "board_id") = Get(combined_items[m], "board_id"))
         => n = m
  /\ BoardsOnlyTraversal =>
       /\ \A n \in 1..Len(combined_items) :
            /\ HasKey(combined_items[n], "board_id")
            /\ Get(combined_items[n], "board_id") \in ArrivedBoardIds
       /\ \A id \in ArrivedBoardIds :
            /\ Cardinality(EntriesOf(id)) = 1
            /\ \A n \in EntriesOf(id) :
                 Get(combined_items[n], "items")
                   = PyList(ArrivedItemsFrom(id, 1, 1))

\* a board arrived in two responses and a second board in the later one
C39_Witness ==
  /\ BoardsOnlyTraversal
  /\ Len(received) = 2
  /\ Len(combined_items) = 2
  /\ Get(combined_items[1], "board_id") = PyStr("1")
  /\ Len(Get(combined_items[1], "items").items) = 4
  /\ Get(combined_items[2], "board_id") = PyStr("2")

\* the cursor the k-th request has to resume from: the starting cursor for
\* the first request, the cursor of the preceding response for the others
ResumePoint(k) ==
  IF k = 1 THEN starting_cursor ELSE PageCursor(received[k - 1])

(* C33.  In a traversal over pages of items the caller's query is sent     *)
(* verbatim exactly when the request is the first and no starting cursor   *)
(* was supplied; every other request is the continuation query built from  *)
(* the page size, the selection set extracted from the caller's query (the *)
(* same in every continuation) and the cursor of the preceding response,   *)
(* or the starting cursor for the first request.                           *)
C33_VerbatimFirstElseContinuation ==
  (\A k \in 1..Len(received) : WellFormedItemsPage(received[k])) =>
    \A k \in 1..Len(sent) :
      /\ sent[k] = query <=> (k = 1 /\ ~StartingCursorSupplied)
      /\ sent[k] # query =>
           sent[k] = ContinuationQuery(limit, ResumePoint(k).v,
                                       extract_items_from_query(query).v)

\* the characters of a GraphQL name
NameChars ==
  {"a", "b", "c", "d", "e", "f", "g", "h", "i", "j", "k", "l", "m", "n", "o",
   "p", "q", "r", "s", "t", "u", "v", "w", "x", "y", "z", "A", "B", "C", "D",
   "E", "F", "G", "H", "I", "J", "K", "L", "M", "N", "O", "P", "Q", "R", "S",
   "T", "U", "V", "W", "X", "Y", "Z", "0", "1", "2", "3", "4", "5", "6", "7",
   "8", "9", "_"}

IsNameChar(s, i) == i >= 1 /\ i <= Len(s) /\ CharAt(s, i) \in NameChars

\* the name at position i of s is the whole word cursor
CursorFieldAt(s, i) ==
  /\ StartsWithAt(s, i, "cursor")
  /\ ~IsNameChar(s, i - 1)
  /\ ~IsNameChar(s, i + 6)

\* s from position i on, without the fields named cursor
RECURSIVE WithoutCursorFieldFrom(_, _)
WithoutCursorFieldFrom(s, i) ==
  IF i > Len(s) THEN ""
  ELSE IF CursorFieldAt(s, i) THEN WithoutCursorFieldFrom(s, i + 6)
  ELSE CharAt(s, i) \o WithoutCursorFieldFrom(s, i + 1)

\* the span of q from 'items {' to the brace that closes it
CapturedBlock(q) ==
  SubSeq(q, Find(q, "items {"),
         ScanBraces(q, Find(q, "items {"), 0, Find(q, "items {")).end_index)

(* C34.  The selection set a continuation query embeds is the block        *)
(* captured from the caller's query with exactly the fields named cursor   *)
(* removed: every other name, also one that contains the letters cursor as *)
(* a part, and every brace of the block is kept.                           *)
C34_OnlyCursorFieldRemoved ==
  (/\ page_pc = "await"
   /\ sent[Len(sent)] # query) =>
    sent[Len(sent)]
      = ContinuationQuery(limit, cursor.v,
                          Strip(WithoutCursorFieldFrom(CapturedBlock(query), 1)))

(***************************************************************************)
(* Concurrent calls: post_request coroutines started on one client and     *)
(* interleaved by the event loop at their await points                     *)
(* (src/monday/client.py, lines 235-302).  The client holds no lock and no *)
(* counter; the only state the calls share is self.max_retries and         *)
(* self._rate_limit_seconds, which post_request reads and never writes.    *)
(***************************************************************************)
\* the two coroutines
Calls == {1, 2}

\* what the transport hands to a concurrent call: one outcome of each kind
\* the try block tells apart
ConcurrentOutcomes ==
  {[kind |-> "json", payload |-> p, text |-> ""] :
     p \in {Payload({"data"}, "-", "-", JsonAbsent),
            Payload({"errors"}, "-", "-", JsonAbsent),
            Payload({}, "ComplexityException", "-", JsonAbsent),
            Payload({"error"}, "ComplexityException", "reset in 12 seconds",
                    JsonInt("429")),
            Payload({"error"}, "-", "-", JsonInt("429"))}}
  \cup {[kind |-> "ClientError", payload |-> NoPayload,
         text |-> "Client error occurred"]}

\* the locals of a coroutine at the for statement of line 250
NewCall ==
  [pc |-> "loop", attempt |-> 0,
   response_data |-> [bound |-> FALSE, value |-> NoPayload],
   sleep_for |-> 0, result |-> NoResult, transport_calls |-> 0,
   sleeps |-> <<>>, responses |-> <<>>]

\* MondayClient.__init__ followed by two calls of post_request
ConcurrentInit ==
  /\ max_retries \in 0..MaxRetriesBound
  /\ pc = "idle"
  /\ attempt = 0
  /\ response_data = [bound |-> FALSE, value |-> NoPayload]
  /\ sleep_for = 0
  /\ result = NoResult
  /\ transport_calls = 0
  /\ sleeps = <<>>
  /\ responses = <<>>
  /\ calls = [c \in Calls |-> NewCall]
  /\ PaginationIdle
  /\ ServiceIdle
  /\ ThreadsIdle

outside_calls == <<governor_vars, page_vars, service_vars, thread_vars>>

\* variant: the client lets one request or cooldown run at a time
CallExecuteRequest_OneAtATime(c) ==
  /\ calls[c].pc = "loop"
  /\ calls[c].attempt < max_retries
  /\ \A d \in Calls \ {c} : calls[d].pc \notin {"request", "sleep"}
  /\ calls' = [calls EXCEPT ![c].pc = "request",
                            ![c].transport_calls = @ + 1]
  /\ UNCHANGED outside_calls

\* line 250 into line 252 of call c
CallExecuteRequest(c) ==
  /\ calls[c].pc = "loop"
  /\ calls[c].attempt < max_retries
  /\ calls' = [calls EXCEPT ![c].pc = "request",
                            ![c].transport_calls = @ + 1]
  /\ UNCHANGED outside_calls

\* lines 261, 266 and 268 of call c: the try block returns
CallReturnFromTry(c) ==
  /\ calls[c].pc = "request"
  /\ \E outcome \in ConcurrentOutcomes :
       /\ TryBlock(outcome).kind = "return"
       /\ calls' = [calls EXCEPT
            ![c].responses = Append(@, outcome),
            ![c].response_data = [bound |-> TRUE, value |-> outcome.payload],
            ![c].result = TryBlock(outcome),
            ![c].pc = "done"]
  /\ UNCHANGED outside_calls

\* line 256 of call c: an exception no except clause catches
CallPropagate(c) ==
  /\ calls[c].pc = "request"
  /\ \E outcome \in ConcurrentOutcomes :
       /\ TryBlock(outcome).kind = "raise"
       /\ TryBlock(outcome).tag \notin CaughtExceptions
       /\ calls' = [calls EXCEPT
            ![c].responses = Append(@, outcome),
            ![c].response_data = [bound |-> TRUE, value |-> outcome.payload],
            ![c].result = TryBlock(outcome),
            ![c].pc = "done"]
  /\ UNCHANGED outside_calls

\* lines 270-273 and 277-280 of call c: a caught exception, attempts left
CallRetrySleep(c) ==
  /\ calls[c].pc = "request"
  /\ AttemptsLeft(calls[c].attempt, max_retries)
  /\ \E outcome \in ConcurrentOutcomes :
       LET e == TryBlock(outcome) IN
       /\ e.kind = "raise"
       /\ e.tag \in CaughtExceptions
       /\ calls' = [calls EXCEPT
            ![c].responses = Append(@, outcome),
            ![c].response_data = IF outcome.kind = "json"
                                 THEN [bound |-> TRUE, value |-> outcome.payload]
                                 ELSE @,
            ![c].sleep_for = Cooldown(e),
            ![c].sleeps = Append(@, Cooldown(e)),
            ![c].pc = "sleep"]
  /\ UNCHANGED outside_calls

\* lines 274-276 and 281-283 of call c: a caught exception on its last attempt
CallMaxRetriesReached(c) ==
  /\ calls[c].pc = "request"
  /\ ~AttemptsLeft(calls[c].attempt, max_retries)
  /\ \E outcome \in ConcurrentOutcomes :
       LET e == TryBlock(outcome) IN
       /\ e.kind = "raise"
       /\ e.tag \in CaughtExceptions
       /\ calls' = [calls EXCEPT
            ![c].responses = Append(@, outcome),
            ![c].response_data = IF outcome.kind = "json"
                                 THEN [bound |-> TRUE, value |-> outcome.payload]
                                 ELSE @,
            ![c].result = Return("error", NoPayload, MaxRetriesText(e)),
            ![c].pc = "done"]
  /\ UNCHANGED outside_calls

\* variant: the loop variable is a field of the client
CallWakeUp_ClientWideCounter(c) ==
  /\ calls[c].pc = "sleep"
  /\ calls' = [d \in Calls |->
                 IF d = c
                 THEN [calls[d] EXCEPT !.pc = "loop", !.attempt = @ + 1,
                                       !.sleep_for = 0]
                 ELSE [calls[d] EXCEPT !.attempt = @ + 1]]
  /\ UNCHANGED outside_calls

\* asyncio.sleep of call c returns and its for statement takes the next value
CallWakeUp(c) ==
  /\ calls[c].pc = "sleep"
  /\ calls' = [calls EXCEPT ![c].pc = "loop", ![c].attempt = @ + 1,
                            ![c].sleep_for = 0]
  /\ UNCHANGED outside_calls

\* line 285 of call c
CallLoopExhausted(c) ==
  /\ calls[c].pc = "loop"
  /\ ~(calls[c].attempt < max_retries)
  /\ calls' = [calls EXCEPT
       ![c].result = IF calls[c].response_data.bound
                     THEN Return("error", calls[c].response_data.value,
                                 "Max retries reached: ")
                     ELSE Raise("UnboundLocalError", "", 0),
       ![c].pc = "done"]
  /\ UNCHANGED outside_calls

\* the event loop resumes one coroutine
ConcurrentNext ==
  \E c \in Calls :
    \/ CallExecuteRequest(c)
    \/ CallReturnFromTry(c)
    \/ CallPropagate(c)
    \/ CallRetrySleep(c)
    \/ CallMaxRetriesReached(c)
    \/ CallWakeUp(c)
    \/ CallLoopExhausted(c)

SpecConcurrent == ConcurrentInit /\ [][ConcurrentNext]_vars

(***************************************************************************)
(* Vocabulary of the claims about concurrent calls.                        *)
(***************************************************************************)
\* the faults of a call that its except clauses caught
CaughtFault(outcome) ==
  /\ TryBlock(outcome).kind = "raise"
  /\ TryBlock(outcome).tag \in CaughtExceptions

\* what a call running alone on a client with this retry budget has
\* returned or raised once the transport produced exactly these outcomes
ResultOfLoneCall(budget, own_responses) ==
  IF own_responses = <<>> THEN Raise("UnboundLocalError", "", 0)
  ELSE LET last == own_responses[Len(own_responses)] IN
       IF CaughtFault(last)
       THEN Return("error", NoPayload, MaxRetriesText(TryBlock(last)))
       ELSE TryBlock(last)

\* C25: the attempt counter, the cooldowns and the result of each of two
\* concurrent post_request calls are determined by the call's own transport
\* outcomes: its counter is the number of its own retries, each of its
\* cooldowns is the one its own fault asks for, it makes at most max_retries
\* transport calls of its own, it gives up only after max_retries faults of
\* its own, and it ends as a call running alone would.
C25_CallsAreIndependent ==
  \A c \in Calls :
    LET own == calls[c] IN
    /\ own.transport_calls <= max_retries
    /\ own.transport_calls =
         Len(own.responses) + IF own.pc = "request" THEN 1 ELSE 0
    /\ own.attempt = Len(own.sleeps) - IF own.pc = "sleep" THEN 1 ELSE 0
    /\ Len(own.sleeps) =
         Cardinality({i \in 1..Len(own.responses) :
                        /\ CaughtFault(own.responses[i])
                        /\ i < max_retries})
    /\ \A i \in 1..Len(own.sleeps) :
         /\ CaughtFault(own.responses[i])
         /\ own.sleeps[i] = Cooldown(TryBlock(own.responses[i]))
    /\ own.pc = "done" =>
         /\ own.result = ResultOfLoneCall(max_retries, own.responses)
         /\ (own.responses # <<>>
             /\ CaughtFault(own.responses[Len(own.responses)]))
              => Len(own.responses) = max_retries
    /\ (own.pc = "loop" /\ own.attempt < max_retries) =>
         ENABLED CallExecuteRequest(c)

\* one call used its whole budget on faults while the other succeeded at once
C25_Witness ==
  /\ max_retries >= 2
  /\ calls[1].pc = "done"
  /\ calls[1].transport_calls = max_retries
  /\ CaughtFault(calls[1].responses[max_retries])
  /\ calls[2].pc = "done"
  /\ calls[2].transport_calls = 1
  /\ calls[2].result.tag = "response"

\* C26: whenever a call is suspended in a cooldown sleep or in a network
\* round trip, the other call can take its next step: issue its own
\* transport call when it has attempts left, receive its response and
\* finish, or wake from its own sleep.
C26_SuspendedCallDoesNotBlock ==
  \A c \in Calls : \A d \in Calls \ {c} :
    calls[c].pc \in {"sleep", "request"} =>
      /\ (calls[d].pc = "loop" /\ calls[d].attempt < max_retries)
           => ENABLED CallExecuteRequest(d)
      /\ calls[d].pc = "request" => ENABLED CallReturnFromTry(d)
      /\ calls[d].pc = "sleep" => ENABLED CallWakeUp(d)

\* call 1 is still asleep after its first fault and call 2 has completed
C26_Witness ==
  /\ calls[1].pc = "sleep"
  /\ calls[1].attempt = 0
  /\ calls[2].pc = "done"
  /\ calls[2].transport_calls = 1
  /\ calls[2].result.tag = "response"
(***************************************************************************)
(* A paginated traversal over the retrying client: every request of        *)
(* paginated_item_request (pagination.py line 204) is one call of          *)
(* client.post_request, which runs its own for loop (client.py line 250).  *)
(* calls holds the post_request calls of the traversal in the order they   *)
(* were made; the last one is the call in progress.                        *)
(***************************************************************************)
\* the most requests the traversal makes in the model
MaxTraversalRequests == 2

\* the largest max_retries of the client under a traversal
MaxTraversalRetries == 2

\* the pages behind a response without a fault: one with a cursor, one
\* without, one without data
TraversalPages ==
  {Data(<<KV("next_items_page",
           ItemsPage(<<KV("cursor", PyStr("abc"))>>, <<Item("a")>>))>>),
   Data(<<KV("next_items_page",
           ItemsPage(<<KV("cursor", PyNone)>>, <<Item("b")>>))>>),
   PyDict(<<KV("account_id", PyStr("1"))>>)}

\* the provider's payload as the dict the client decoded, keys in a fixed
\* order; the values of keys other than the fault fields are not modelled
PayloadKeyOrder ==
  <<"data", "errors", "error", "graphqlErrors", "error_code", "error_message",
    "status_code">>

RECURSIVE PayloadEntriesFrom(_, _)
PayloadEntriesFrom(p, i) ==
  IF i > Len(PayloadKeyOrder) THEN <<>>
  ELSE LET key == PayloadKeyOrder[i] IN
       (IF key \notin p.keys THEN <<>>
        ELSE IF key = "error_code" THEN <<KV(key, PyStr(p.error_code))>>
        ELSE IF key = "error_message" THEN <<KV(key, PyStr(p.error_message))>>
        ELSE IF key = "status_code" THEN <<KV(key, PyStr(p.status_code.v))>>
        ELSE <<KV(key, PyNone)>>)
       \o PayloadEntriesFrom(p, i + 1)

\* client.py lines 261, 266, 276, 283 and 285: the dict post_request returns
\* for a fault
ErrorDict(r) ==
  PyDict(<<KV("error", IF r.text # "" THEN PyStr(r.text)
                       ELSE PyDict(PayloadEntriesFrom(r.payload, 1)))>>)

\* MondayClient.__init__ followed by the call of paginated_item_request
TraversalInit ==
  /\ max_retries \in 0..MaxTraversalRetries
  /\ pc = "idle"
  /\ attempt = 0
  /\ response_data = [bound |-> FALSE, value |-> NoPayload]
  /\ sleep_for = 0
  /\ result = NoResult
  /\ transport_calls = 0
  /\ sleeps = <<>>
  /\ responses = <<>>
  /\ calls = <<>>
  /\ page_pc = "top"
  /\ query = "items { id name }"
  /\ limit = DefaultLimit
  /\ starting_cursor \in {PyNone, PyStr("abc")}
  /\ cursor = IF Truthy(starting_cursor) THEN starting_cursor ELSE PyStr("start")
  /\ combined_items = <<>>
  /\ page_result = NoPageResult
  /\ sent = <<>>
  /\ received = <<>>
  /\ ServiceIdle
  /\ ThreadsIdle

outside_traversal == <<governor_vars, service_vars, thread_vars>>

\* variant: the attempts a page used stay used for the pages after it
TraversalSend_SharedBudget ==
  /\ page_pc = "top"
  /\ Len(sent) < MaxTraversalRequests
  /\ LET items_value == extract_items_from_query(query) IN
       /\ cursor # PyStr("start") => Truthy(items_value)
       /\ sent' = Append(sent,
            IF cursor = PyStr("start") THEN query
            ELSE ContinuationQuery(limit, cursor.v, items_value.v))
  /\ calls' = Append(calls,
       [NewCall EXCEPT !.attempt = IF calls = <<>> THEN 0
                                   ELSE calls[Len(calls)].attempt])
  /\ page_pc' = "await"
  /\ UNCHANGED <<query, limit, starting_cursor, cursor, combined_items,
                 page_result, received>>
  /\ UNCHANGED outside_traversal

\* pagination.py lines 185-204: the query of the next request is built and
\* client.post_request is called with it; the call starts at its for
\* statement with locals of its own
TraversalSend ==
  /\ page_pc = "top"
  /\ Len(sent) < MaxTraversalRequests
  /\ LET items_value == extract_items_from_query(query) IN
       /\ cursor # PyStr("start") => Truthy(items_value)
       /\ sent' = Append(sent,
            IF cursor = PyStr("start") THEN query
            ELSE ContinuationQuery(limit, cursor.v, items_value.v))
  /\ calls' = Append(calls, NewCall)
  /\ page_pc' = "await"
  /\ UNCHANGED <<query, limit, starting_cursor, cursor, combined_items,
                 page_result, received>>
  /\ UNCHANGED outside_traversal

\* the call in progress has ended
GovernorDone ==
  /\ page_pc = "await"
  /\ calls # <<>>
  /\ calls[Len(calls)].pc = "done"

\* pagination.py lines 204-237: post_request returned a response without a
\* fault; the page is taken in, and the loop goes on, returns or raises
TraversalPage ==
  /\ GovernorDone
  /\ calls[Len(calls)].result.kind = "return"
  /\ calls[Len(calls)].result.tag = "response"
  /\ \E response \in TraversalPages :
       LET page == HandleResponse(response, combined_items) IN
       /\ received' = Append(received, Returned(response))
       /\ IF page.kind = "raise"
          THEN /\ page_result' = [kind |-> "raise", tag |-> page.tag,
                                  value |-> PyNone]
               /\ page_pc' = "done"
               /\ UNCHANGED <<combined_items, cursor>>
          ELSE /\ combined_items' = page.items
               /\ cursor' = page.cursor
               /\ IF Truthy(page.cursor)
                  THEN page_pc' = "top" /\ UNCHANGED page_result
                  ELSE /\ page_pc' = "done"
                       /\ page_result' =
                            [kind |-> "return", tag |-> "",
                             value |-> PyDict(<<KV("items", PyList(page.items))>>)]
  /\ UNCHANGED <<query, limit, starting_cursor, sent, calls>>
  /\ UNCHANGED outside_traversal

\* pagination.py lines 204-206: post_request returned {'error': ...} and
\* the traversal returns that dict
TraversalFault ==
  /\ GovernorDone
  /\ calls[Len(calls)].result.kind = "return"
  /\ calls[Len(calls)].result.tag = "error"
  /\ received' = Append(received, Returned(ErrorDict(calls[Len(calls)].result)))
  /\ page_result' = Returned(ErrorDict(calls[Len(calls)].result))
  /\ page_pc' = "done"
  /\ UNCHANGED <<query, limit, starting_cursor, cursor, combined_items, sent,
                 calls>>
  /\ UNCHANGED outside_traversal

\* pagination.py line 204: post_request raised and nothing here catches it
TraversalRaises ==
  /\ GovernorDone
  /\ calls[Len(calls)].result.kind = "raise"
  /\ received' = Append(received, GovernorRaised(calls[Len(calls)].result.tag))
  /\ page_result' = [kind |-> "raise", tag |-> calls[Len(calls)].result.tag,
                     value |-> PyNone]
  /\ page_pc' = "done"
  /\ UNCHANGED <<query, limit, starting_cursor, cursor, combined_items, sent,
                 calls>>
  /\ UNCHANGED outside_traversal

\* the traversal is the only coroutine: it runs, or the post_request call
\* it awaits does
TraversalNext ==
  \/ TraversalSend
  \/ TraversalPage
  \/ TraversalFault
  \/ TraversalRaises
  \/ \E c \in {Len(calls)} \ {0} :
       \/ CallExecuteRequest(c)
       \/ CallReturnFromTry(c)
       \/ CallPropagate(c)
       \/ CallRetrySleep(c)
       \/ CallMaxRetriesReached(c)
       \/ CallWakeUp(c)
       \/ CallLoopExhausted(c)

SpecTraversal == TraversalInit /\ [][TraversalNext]_vars

\* the transport calls of the post_request calls from call c on
RECURSIVE TransportCallsFrom(_)
TransportCallsFrom(c) ==
  IF c > Len(calls) THEN 0
  ELSE calls[c].transport_calls + TransportCallsFrom(c + 1)

(* C38.  In one paginated traversal every page request gets a retry budget *)
(* of its own: there is one post_request call per request, each call       *)
(* counts only its own attempts and may make max_retries transport calls   *)
(* whatever the calls before it used, so P requests make at most           *)
(* P * max_retries transport calls, and their total is not bounded by      *)
(* max_retries.                                                            *)
C38_FreshRetryBudgetPerPage ==
  /\ Len(calls) = Len(sent)
  /\ \A c \in 1..Len(calls) :
       /\ calls[c].transport_calls <= max_retries
       /\ calls[c].attempt <= calls[c].transport_calls
       /\ calls[c].transport_calls <= calls[c].attempt + 1
       /\ Len(calls[c].sleeps) <= calls[c].transport_calls
       /\ (calls[c].pc = "loop" /\ calls[c].transport_calls < max_retries) =>
            ENABLED CallExecuteRequest(c)
  /\ TransportCallsFrom(1) <= Len(sent) * max_retries

\* the first page used its whole budget and the second page had as many
\* attempts again
C38_Witness ==
  /\ page_pc = "done"
  /\ max_retries = MaxTraversalRetries
  /\ Len(sent) = 2
  /\ calls[1].transport_calls = max_retries
  /\ calls[2].transport_calls = max_retries
  /\ TransportCallsFrom(1) > max_retries
(***************************************************************************)
(* Service operations: one call of Users.query, Items.query, Boards.query  *)
(* or check_query_result.  client.post_request is abstracted to what it    *)
(* returns or raises; the request is recorded as the args['page'] it is    *)
(* built from, the text being the work of build_graphql_query.             *)
(***************************************************************************)
\* the most requests one call sends
MaxServiceRequests == 3

NoServiceResult ==
  [kind |-> "none", tag |-> "", value |-> PyNone, json |-> PyNone]

ServiceReturned(value) ==
  [kind |-> "return", tag |-> "", value |-> value, json |-> PyNone]

ServiceRaised(exc, json) ==
  [kind |-> "raise", tag |-> exc, value |-> PyNone, json |-> json]

\* what the body of a page loop does with one response
PageRaise(exc, json) ==
  [kind |-> "raise", tag |-> exc, json |-> json, data |-> <<>>, last |-> PyNone]
PageBreak(data, last) ==
  [kind |-> "break", tag |-> "", json |-> PyNone, data |-> data, last |-> last]
PageContinue(data, last) ==
  [kind |-> "continue", tag |-> "", json |-> PyNone, data |-> data, last |-> last]

\* variant: the page index advances by the page size
NextPageIndex_ByTwo(page) == page + 2

\* args['page'] += 1 (users.py line 166, items.py line 143, boards.py line 162)
NextPageIndex(page) == page + 1

User(id, name) == PyDict(<<KV("id", PyStr(id)), KV("name", PyStr(name))>>)

\* the lists a provider answers a users query with
UserLists ==
  {<<>>,
   <<User("1", "A")>>,
   <<User("2", "C")>>,
   <<User("1", "A"), User("2", "C")>>,
   <<User("2", "C"), User("1", "B")>>,
   <<User("1", "A"), User("1", "B")>>,
   <<PyDict(<<KV("name", PyStr("A"))>>)>>}

\* what client.post_request gives Users.query
UserResults ==
  {Returned(Data(<<KV("users", PyList(l))>>)) : l \in UserLists}
  \cup {Returned(Data(<<KV("users", PyNone)>>)),
        Returned(Data(<<>>)),
        Returned(PyDict(<<KV("account_id", PyStr("1"))>>))}
  \cup {Returned(d) : d \in FaultDicts}
  \cup {GovernorRaised("KeyError")}

\* users.py lines 146-166: the body of the while loop after the await
UsersPage(query_result, users_data, last, lim, pag) ==
  LET checked == check_query_result(query_result) IN
  IF checked.exc # "" THEN PageRaise(checked.exc, checked.json)
  ELSE IF ~HasKey(Get(query_result, "data"), "users")
  THEN PageRaise("KeyError", PyNone)
  ELSE LET current_users == Get(Get(query_result, "data"), "users") IN
       IF ~Truthy(current_users) THEN PageBreak(users_data, last)
       ELSE IF current_users = last THEN PageBreak(users_data, last)
       ELSE LET extended == users_data \o Elements(current_users) IN
            IF Len(current_users.items) < lim
            THEN PageBreak(extended, current_users)
            ELSE IF ~pag THEN PageBreak(extended, current_users)
            ELSE PageContinue(extended, current_users)

\* variant: only a record equal to the one kept last counts as seen
Unseen_ComparesLastKept(id, seen_ids, unique_users) ==
  \/ unique_users = <<>>
  \/ Get(unique_users[Len(unique_users)], "id") # id

\* users.py line 173: user['id'] not in seen_ids
Unseen(id, seen_ids, unique_users) == id \notin seen_ids

\* users.py lines 169-177: the loop over users_data from position i on
RECURSIVE UniqueUsers(_, _, _, _)
UniqueUsers(users_data, i, seen_ids, unique_users) ==
  IF i > Len(users_data) THEN ServiceReturned(PyList(unique_users))
  ELSE IF ~HasKey(users_data[i], "id") THEN ServiceRaised("KeyError", PyNone)
  ELSE IF Unseen(Get(users_data[i], "id"), seen_ids, unique_users)
       THEN UniqueUsers(users_data, i + 1,
                        seen_ids \cup {Get(users_data[i], "id")},
                        Append(unique_users, users_data[i]))
       ELSE UniqueUsers(users_data, i + 1, seen_ids, unique_users)

\* Item.from_dict(item): the typed object made of a raw record
\* (monday/types/item.py is not part of the sources; the object is taken to
\* hold the fields of the record)
FromDict(item) == [t |-> "Item", v |-> "", items |-> item.items]

\* what client.post_request gives Items.query
ItemResults ==
  {Returned(Data(<<KV("items", PyList(l))>>)) : l \in ItemLists}
  \cup {Returned(Data(<<>>)),
        Returned(PyDict(<<KV("account_id", PyStr("1"))>>))}
  \cup {Returned(d) : d \in FaultDicts}
  \cup {GovernorRaised("KeyError")}

\* variant: a page replaces what was gathered before it
ItemsQueryPage_KeepsNewestPage(query_result, items_data) ==
  LET checked == check_query_result(query_result) IN
  IF checked.exc # "" THEN PageRaise(checked.exc, checked.json)
  ELSE LET data == Get(query_result, "data") IN
       IF ~HasKey(data, "items") \/ ~Truthy(Get(data, "items"))
       THEN PageBreak(items_data, PyNone)
       ELSE PageContinue(Elements(Get(data, "items")), PyNone)

\* items.py lines 137-143: the body of the while loop after the await
ItemsQueryPage(query_result, items_data) ==
  LET checked == check_query_result(query_result) IN
  IF checked.exc # "" THEN PageRaise(checked.exc, checked.json)
  ELSE LET data == Get(query_result, "data") IN
       IF ~HasKey(data, "items") \/ ~Truthy(Get(data, "items"))
       THEN PageBreak(items_data, PyNone)
       ELSE PageContinue(items_data \o Elements(Get(data, "items")), PyNone)

\* boards as the provider returns them: with more items to fetch, complete,
\* with the items page under a group, and without an items page
QueriedBoard(id, more) ==
  PyDict(<<KV("id", PyStr(id)), KV("items_page", more)>>)

NestedBoard ==
  PyDict(<<KV("id", PyStr("3")),
           KV("groups", PyList(<<
              PyDict(<<KV("id", PyStr("g")), KV("items_page", PyNone)>>),
              PyDict(<<KV("items_page",
                          ItemsPage(<<KV("cursor", PyStr("abc"))>>,
                                    <<Item("a")>>))>>)>>))>>)

BoardLists ==
  {<<>>,
   <<QueriedBoard("1", ItemsPage(<<KV("cursor", PyStr("abc"))>>, <<Item("a")>>))>>,
   <<QueriedBoard("1", ItemsPage(<<KV("cursor", PyStr("abc"))>>, <<Item("a")>>)),
     QueriedBoard("2", ItemsPage(<<KV("cursor", PyNone)>>, <<Item("b")>>))>>,
   <<NestedBoard, PyDict(<<KV("id", PyStr("4"))>>)>>}

\* what client.post_request gives Boards.query
BoardResults ==
  {Returned(Data(<<KV("boards", PyList(l))>>)) : l \in BoardLists}
  \cup {Returned(Data(<<>>))}
  \cup {Returned(d) : d \in FaultDicts}
  \cup {GovernorRaised("KeyError")}

\* boards.py lines 155-162: the body of the while loop after the await
BoardsQueryPage(query_result, boards_data) ==
  LET checked == check_query_result(query_result) IN
  IF checked.exc # "" THEN PageRaise(checked.exc, checked.json)
  ELSE LET data == Get(query_result, "data") IN
       IF ~HasKey(data, "boards") THEN PageRaise("KeyError", PyNone)
       ELSE IF ~Truthy(Get(data, "boards")) THEN PageBreak(boards_data, PyNone)
       ELSE PageContinue(boards_data \o Elements(Get(data, "boards")), PyNone)

\* pagination.py lines 33-58: the for loops from position i on
RECURSIVE ItemsPageInEntries(_, _)
RECURSIVE extract_items_page_value(_)
ItemsPageInEntries(data, i) ==
  IF i > Len(data.items) THEN PyNone
  ELSE IF data.t = "dict" /\ data.items[i].k = "items_page"
       THEN data.items[i].val
  ELSE LET found == extract_items_page_value(data.items[i].val)
       IN  IF found # PyNone THEN found ELSE ItemsPageInEntries(data, i + 1)

extract_items_page_value(data) ==
  IF data.t \in {"dict", "list"} THEN ItemsPageInEntries(data, 1) ELSE PyNone

\* the board after the dict that extract_items_page_value returned was
\* changed in place into items_page (boards.py lines 896-903): [hit, value]
RECURSIVE InPlaceEntries(_, _, _)
RECURSIVE InPlace(_, _)
InPlaceEntries(data, i, items_page) ==
  IF i > Len(data.items) THEN [hit |-> FALSE, value |-> data]
  ELSE IF data.t = "dict" /\ data.items[i].k = "items_page"
       THEN IF data.items[i].val = PyNone
            THEN [hit |-> FALSE, value |-> data]
            ELSE [hit |-> TRUE,
                  value |-> [data EXCEPT !.items[i].val = items_page]]
  ELSE LET inner == InPlace(data.items[i].val, items_page)
       IN  IF inner.hit
           THEN [hit |-> TRUE,
                 value |-> [data EXCEPT !.items[i].val = inner.value]]
           ELSE InPlaceEntries(data, i + 1, items_page)

InPlace(data, items_page) ==
  IF data.t \in {"dict", "list"} THEN InPlaceEntries(data, 1, items_page)
  ELSE [hit |-> FALSE, value |-> data]

\* del d[key]
Without(d, key) ==
  [d EXCEPT !.items = SelectSeq(d.items, LAMBDA e : e.k # key)]

\* items_page['items'].extend(more) followed by del items_page['cursor']
\* (boards.py lines 901-902)
Extended(items_page, more) ==
  Without([items_page EXCEPT !.items =
             [i \in 1..Len(items_page.items) |->
                IF items_page.items[i].k = "items"
                THEN KV("items", PyList(Elements(items_page.items[i].val)
                                          \o Elements(more)))
                ELSE items_page.items[i]]],
          "cursor")

\* what paginated_item_request gives _paginate_items: the items it
\* gathered, the fault dict the governor returned, or an exception
ItemRequestResults ==
  {Returned(PyDict(<<KV("items", PyList(l))>>)) : l \in ItemLists}
  \cup {Returned(d) : d \in FaultDicts}
  \cup {GovernorRaised("PaginationError"), GovernorRaised("MondayAPIError")}

\* the responses check_query_result is applied to: every dict with some of
\* these top-level keys
ResponseEntries ==
  <<KV("data", PyDict(<<KV("items", PyList(<<>>))>>)),
    KV("errors", PyList(<<PyDict(<<KV("message", PyStr("API Error"))>>)>>)),
    KV("error_code", PyStr("ComplexityException")),
    KV("error_message", PyStr("Complexity limit exceeded")),
    KV("status_code", PyStr("429")),
    KV("error", PyStr("Max retries reached. Last error: Client error occurred")),
    KV("account_id", PyStr("1"))>>

RECURSIVE EntriesIn(_, _)
EntriesIn(keep, i) ==
  IF i > Len(ResponseEntries) THEN <<>>
  ELSE (IF i \in keep THEN <<ResponseEntries[i]>> ELSE <<>>)
       \o EntriesIn(keep, i + 1)

Responses ==
  {PyDict(EntriesIn(keep, 1)) : keep \in SUBSET (1..Len(ResponseEntries))}

Operations ==
  {"check_query_result", "Users.query", "Items.query", "Boards.query"}

\* values of the fields argument of Boards.query: the default, a selection
\* of items pages with their cursor and one without it
BoardFields ==
  {"id name", "id name items_page { cursor items { id } }",
   "id items_page { items { id } }"}

\* the flag is tested on the wrong side
PaginationWithoutCursor_FlagInverted(paginate_items, fields_arg) ==
  /\ ~paginate_items
  /\ Contains(fields_arg, "items_page")
  /\ ~Contains(fields_arg, "cursor")

\* boards.py line 123: the condition under which Boards.query refuses its
\* arguments
PaginationWithoutCursor(paginate_items, fields_arg) ==
  /\ paginate_items
  /\ Contains(fields_arg, "items_page")
  /\ ~Contains(fields_arg, "cursor")

\* the call of the operation with its arguments
ServiceInit ==
  /\ GovernorIdle
  /\ PaginationIdle
  /\ ConcurrentIdle
  /\ ThreadsIdle
  /\ operation \in Operations
  /\ svc_pc = "build"
  /\ svc_limit \in (IF operation = "Users.query" THEN {1, 2} ELSE {0})
  /\ paginate \in (IF operation \in {"Users.query", "Boards.query"}
                   THEN BOOLEAN ELSE {FALSE})
  /\ fields \in (IF operation = "Boards.query" THEN BoardFields ELSE {""})
  /\ args_page \in (IF operation = "check_query_result" THEN {0} ELSE {1, 2})
  /\ collected = <<>>
  /\ last_response = PyNone
  /\ board_index = 0
  /\ requested = <<>>
  /\ answers = <<>>
  /\ item_answers = <<>>
  /\ svc_result = NoServiceResult

outside_service == <<governor_vars, page_vars, concurrent_vars, thread_vars>>

\* error_handlers.py lines 30-34 applied to a response
CheckQueryResult ==
  /\ operation = "check_query_result"
  /\ svc_pc = "build"
  /\ \E response \in Responses :
       LET checked == check_query_result(response) IN
       /\ answers' = <<Returned(response)>>
       /\ svc_result' = IF checked.exc # ""
                        THEN ServiceRaised(checked.exc, checked.json)
                        ELSE ServiceReturned(checked.value)
  /\ svc_pc' = "done"
  /\ UNCHANGED <<operation, svc_limit, paginate, fields, args_page, collected,
                 last_response, board_index, requested, item_answers>>
  /\ UNCHANGED outside_service

\* the query built from args goes to client.post_request
\* (users.py lines 135-145 and 167, items.py lines 134-136,
\* boards.py lines 147-153)
SendRequest ==
  /\ operation \in {"Users.query", "Items.query", "Boards.query"}
  /\ svc_pc = "build"
  /\ ~(operation = "Boards.query" /\ PaginationWithoutCursor(paginate, fields))
  /\ Len(requested) < MaxServiceRequests
  /\ requested' = Append(requested, args_page)
  /\ svc_pc' = "await"
  /\ UNCHANGED <<operation, svc_limit, paginate, fields, args_page, collected,
                 last_response, board_index, answers, item_answers, svc_result>>
  /\ UNCHANGED outside_service

\* boards.py lines 123-128: Boards.query refuses to paginate items pages
\* selected without their cursor, before it builds a query
RejectFields ==
  /\ operation = "Boards.query"
  /\ svc_pc = "build"
  /\ requested = <<>>
  /\ PaginationWithoutCursor(paginate, fields)
  /\ svc_result' = ServiceRaised("QueryFormatError", PyNone)
  /\ svc_pc' = "done"
  /\ UNCHANGED <<operation, svc_limit, paginate, fields, args_page, collected,
                 last_response, board_index, requested, answers, item_answers>>
  /\ UNCHANGED outside_service

\* users.py lines 145-148: post_request, check_query_result or the
\* subscript raises
UsersFault ==
  /\ operation = "Users.query"
  /\ svc_pc = "await"
  /\ \E r \in UserResults :
       /\ answers' = Append(answers, r)
       /\ IF r.kind = "raise"
          THEN svc_result' = ServiceRaised(r.tag, PyNone)
          ELSE LET step == UsersPage(r.value, collected, last_response,
                                     svc_limit, paginate) IN
               /\ step.kind = "raise"
               /\ svc_result' = ServiceRaised(step.tag, step.json)
  /\ svc_pc' = "done"
  /\ UNCHANGED <<operation, svc_limit, paginate, fields, args_page, collected,
                 last_response, board_index, requested, item_answers>>
  /\ UNCHANGED outside_service

\* users.py lines 149-177: the loop breaks and the unique records are returned
UsersLastPage ==
  /\ operation = "Users.query"
  /\ svc_pc = "await"
  /\ \E r \in UserResults :
       /\ r.kind = "return"
       /\ LET step == UsersPage(r.value, collected, last_response,
                                svc_limit, paginate) IN
          /\ step.kind = "break"
          /\ answers' = Append(answers, r)
          /\ collected' = step.data
          /\ last_response' = step.last
          /\ svc_result' = UniqueUsers(step.data, 1, {}, <<>>)
  /\ svc_pc' = "done"
  /\ UNCHANGED <<operation, svc_limit, paginate, fields, args_page, board_index,
                 requested, item_answers>>
  /\ UNCHANGED outside_service

\* users.py lines 156-166: the page is kept and the next one is asked for
UsersNextPage ==
  /\ operation = "Users.query"
  /\ svc_pc = "await"
  /\ \E r \in UserResults :
       /\ r.kind = "return"
       /\ LET step == UsersPage(r.value, collected, last_response,
                                svc_limit, paginate) IN
          /\ step.kind = "continue"
          /\ answers' = Append(answers, r)
          /\ collected' = step.data
          /\ last_response' = step.last
  /\ args_page' = NextPageIndex(args_page)
  /\ svc_pc' = "build"
  /\ UNCHANGED <<operation, svc_limit, paginate, fields, board_index, requested,
                 item_answers, svc_result>>
  /\ UNCHANGED outside_service

\* items.py lines 136-137: post_request or check_query_result raises
ItemsFault ==
  /\ operation = "Items.query"
  /\ svc_pc = "await"
  /\ \E r \in ItemResults :
       /\ answers' = Append(answers, r)
       /\ IF r.kind = "raise"
          THEN svc_result' = ServiceRaised(r.tag, PyNone)
          ELSE LET step == ItemsQueryPage(r.value, collected) IN
               /\ step.kind = "raise"
               /\ svc_result' = ServiceRaised(step.tag, step.json)
  /\ svc_pc' = "done"
  /\ UNCHANGED <<operation, svc_limit, paginate, fields, args_page, collected,
                 last_response, board_index, requested, item_answers>>
  /\ UNCHANGED outside_service

\* items.py lines 139-140 and 146: the loop breaks and the typed items are
\* returned
ItemsLastPage ==
  /\ operation = "Items.query"
  /\ svc_pc = "await"
  /\ \E r \in ItemResults :
       /\ r.kind = "return"
       /\ LET step == ItemsQueryPage(r.value, collected) IN
          /\ step.kind = "break"
          /\ answers' = Append(answers, r)
          /\ svc_result' = ServiceReturned(PyList(
               [i \in 1..Len(step.data) |-> FromDict(step.data[i])]))
  /\ svc_pc' = "done"
  /\ UNCHANGED <<operation, svc_limit, paginate, fields, args_page, collected,
                 last_response, board_index, requested, item_answers>>
  /\ UNCHANGED outside_service

\* items.py lines 142-143: the page is kept and the next one is asked for
ItemsNextPage ==
  /\ operation = "Items.query"
  /\ svc_pc = "await"
  /\ \E r \in ItemResults :
       /\ r.kind = "return"
       /\ LET step == ItemsQueryPage(r.value, collected) IN
          /\ step.kind = "continue"
          /\ answers' = Append(answers, r)
          /\ collected' = step.data
  /\ args_page' = NextPageIndex(args_page)
  /\ svc_pc' = "build"
  /\ UNCHANGED <<operation, svc_limit, paginate, fields, last_response, board_index,
                 requested, item_answers, svc_result>>
  /\ UNCHANGED outside_service

\* boards.py lines 153-157: post_request, check_query_result or the
\* subscript raises
BoardsFault ==
  /\ operation = "Boards.query"
  /\ svc_pc = "await"
  /\ \E r \in BoardResults :
       /\ answers' = Append(answers, r)
       /\ IF r.kind = "raise"
          THEN svc_result' = ServiceRaised(r.tag, PyNone)
          ELSE LET step == BoardsQueryPage(r.value, collected) IN
               /\ step.kind = "raise"
               /\ svc_result' = ServiceRaised(step.tag, step.json)
  /\ svc_pc' = "done"
  /\ UNCHANGED <<operation, svc_limit, paginate, fields, args_page, collected,
                 last_response, board_index, requested, item_answers>>
  /\ UNCHANGED outside_service

\* boards.py lines 157-158 and 164-168: the loop breaks; the boards are
\* returned, or _paginate_items starts on them
BoardsLastPage ==
  /\ operation = "Boards.query"
  /\ svc_pc = "await"
  /\ \E r \in BoardResults :
       /\ r.kind = "return"
       /\ BoardsQueryPage(r.value, collected).kind = "break"
       /\ answers' = Append(answers, r)
  /\ IF Contains(fields, "items_page") /\ paginate
     THEN /\ svc_pc' = "boards"
          /\ board_index' = 1
          /\ UNCHANGED svc_result
     ELSE /\ svc_pc' = "done"
          /\ svc_result' = ServiceReturned(PyList(collected))
          /\ UNCHANGED board_index
  /\ UNCHANGED <<operation, svc_limit, paginate, fields, args_page, collected,
                 last_response, requested, item_answers>>
  /\ UNCHANGED outside_service

\* boards.py lines 160-162: the page is kept and the next one is asked for
BoardsNextPage ==
  /\ operation = "Boards.query"
  /\ svc_pc = "await"
  /\ \E r \in BoardResults :
       /\ r.kind = "return"
       /\ LET step == BoardsQueryPage(r.value, collected) IN
          /\ step.kind = "continue"
          /\ answers' = Append(answers, r)
          /\ collected' = step.data
  /\ args_page' = NextPageIndex(args_page)
  /\ svc_pc' = "build"
  /\ UNCHANGED <<operation, svc_limit, paginate, fields, last_response, board_index,
                 requested, item_answers, svc_result>>
  /\ UNCHANGED outside_service

\* boards.py lines 895-898: a board without an items page is passed over
SkipBoard ==
  /\ svc_pc = "boards"
  /\ board_index <= Len(collected)
  /\ ~Truthy(extract_items_page_value(collected[board_index]))
  /\ board_index' = board_index + 1
  /\ UNCHANGED <<operation, svc_pc, svc_limit, paginate, fields, args_page, collected,
                 last_response, requested, answers, item_answers, svc_result>>
  /\ UNCHANGED outside_service

\* boards.py lines 899 and 902-903: a board whose items page has no cursor
\* left loses the cursor key
CompleteBoard ==
  /\ svc_pc = "boards"
  /\ board_index <= Len(collected)
  /\ LET items_page == extract_items_page_value(collected[board_index]) IN
     /\ Truthy(items_page)
     /\ ~Truthy(Get(items_page, "cursor"))
     /\ collected' = [collected EXCEPT ![board_index] =
          InPlace(@, Extended(items_page, PyList(<<>>))).value]
  /\ board_index' = board_index + 1
  /\ UNCHANGED <<operation, svc_pc, svc_limit, paginate, fields, args_page,
                 last_response, requested, answers, item_answers, svc_result>>
  /\ UNCHANGED outside_service

\* boards.py lines 899-900: the rest of a board's items is asked for
PaginateBoard ==
  /\ svc_pc = "boards"
  /\ board_index <= Len(collected)
  /\ LET items_page == extract_items_page_value(collected[board_index]) IN
     /\ Truthy(items_page)
     /\ Truthy(Get(items_page, "cursor"))
  /\ svc_pc' = "items"
  /\ UNCHANGED <<operation, svc_limit, paginate, fields, args_page, collected,
                 last_response, board_index, requested, answers, item_answers,
                 svc_result>>
  /\ UNCHANGED outside_service

\* boards.py lines 900-903: paginated_item_request returned a dict with the
\* items, which are added to the board
BoardItemsReceived ==
  /\ svc_pc = "items"
  /\ \E r \in ItemRequestResults :
       /\ r.kind = "return"
       /\ HasKey(r.value, "items")
       /\ item_answers' = Append(item_answers, r)
       /\ collected' = [collected EXCEPT ![board_index] =
            InPlace(@, Extended(extract_items_page_value(@),
                                Get(r.value, "items"))).value]
  /\ board_index' = board_index + 1
  /\ svc_pc' = "boards"
  /\ UNCHANGED <<operation, svc_limit, paginate, fields, args_page, last_response,
                 requested, answers, svc_result>>
  /\ UNCHANGED outside_service

\* boards.py lines 900-901: paginated_item_request raises, or the dict it
\* returned has no 'items' key and the subscript raises KeyError
BoardItemsFault ==
  /\ svc_pc = "items"
  /\ \E r \in ItemRequestResults :
       /\ IF r.kind = "raise" THEN TRUE ELSE ~HasKey(r.value, "items")
       /\ item_answers' = Append(item_answers, r)
       /\ svc_result' = IF r.kind = "raise" THEN ServiceRaised(r.tag, PyNone)
                        ELSE ServiceRaised("KeyError", PyNone)
  /\ svc_pc' = "done"
  /\ UNCHANGED <<operation, svc_limit, paginate, fields, args_page, collected,
                 last_response, board_index, requested, answers>>
  /\ UNCHANGED outside_service

\* boards.py lines 904 and 165-168: every board was visited
ReturnBoards ==
  /\ svc_pc = "boards"
  /\ board_index > Len(collected)
  /\ svc_result' = ServiceReturned(PyList(collected))
  /\ svc_pc' = "done"
  /\ UNCHANGED <<operation, svc_limit, paginate, fields, args_page, collected,
                 last_response, board_index, requested, answers, item_answers>>
  /\ UNCHANGED outside_service

ServiceNext ==
  \/ CheckQueryResult
  \/ SendRequest
  \/ RejectFields
  \/ UsersFault
  \/ UsersLastPage
  \/ UsersNextPage
  \/ ItemsFault
  \/ ItemsLastPage
  \/ ItemsNextPage
  \/ BoardsFault
  \/ BoardsLastPage
  \/ BoardsNextPage
  \/ SkipBoard
  \/ CompleteBoard
  \/ PaginateBoard
  \/ BoardItemsReceived
  \/ BoardItemsFault
  \/ ReturnBoards

SpecService == ServiceInit /\ [][ServiceNext]_vars
(***************************************************************************)
(* Vocabulary of the claims about service operations.                      *)
(***************************************************************************)
\* some top-level key of the response contains 'error'
HasErrorLikeKey(response) ==
  \E i \in 1..Len(response.items) :
    Contains(Lower(response.items[i].k), "error")

\* C29: check_query_result applied to a response with a top-level key that
\* contains 'error' raises MondayAPIError whose json attribute is the whole
\* response, and applied to a response with a 'data' key and no such key it
\* returns the response unchanged.
C29_ErrorKeyRaisesWithResponse ==
  (operation = "check_query_result" /\ svc_pc = "done") =>
    LET response == answers[1].value IN
    /\ HasErrorLikeKey(response) =>
         svc_result = ServiceRaised("MondayAPIError", response)
    /\ (~HasErrorLikeKey(response) /\ HasKey(response, "data")) =>
         svc_result = ServiceReturned(response)

\* the ids of the records of a list, in order
Ids(records) == [i \in 1..Len(records) |-> Get(records[i], "id")]

\* the positions of a list that hold the first record with their id
FirstSeen(records) ==
  {i \in 1..Len(records) :
     \A j \in 1..(i - 1) : Ids(records)[j] # Ids(records)[i]}

\* the records at the positions in keep, in their order
RECURSIVE RecordsAt(_, _, _)
RecordsAt(records, keep, i) ==
  IF i > Len(records) THEN <<>>
  ELSE (IF i \in keep THEN <<records[i]>> ELSE <<>>)
       \o RecordsAt(records, keep, i + 1)

\* the list of users in a response of the users query
UsersOf(answer) == Get(Get(answer.value, "data"), "users")

\* a call of Users.query has returned
UsersQueryReturned == operation = "Users.query" /\ svc_result.kind = "return"

\* C23: the list Users.query returns holds, in first-seen order, the first
\* record of each id among the records of the pages it combined, so no two
\* of its records share an id.
C23_FirstRecordOfEachId ==
  UsersQueryReturned =>
    LET returned == Elements(svc_result.value) IN
    /\ returned = RecordsAt(collected, FirstSeen(collected), 1)
    /\ \A i, j \in 1..Len(returned) :
         Ids(returned)[i] = Ids(returned)[j] => i = j
    /\ \A i \in 1..Len(collected) :
         \E j \in 1..Len(returned) : Ids(returned)[j] = Ids(collected)[i]

\* a later record with the id of an earlier one was dropped, across pages
C23_Witness ==
  /\ UsersQueryReturned
  /\ collected = <<User("1", "A"), User("2", "C"), User("2", "C"), User("1", "B")>>
  /\ svc_result.value = PyList(<<User("1", "A"), User("2", "C")>>)

\* response i of the users query is identical to the one before it
SameAsPrevious(i) ==
  i > 1 /\ UsersOf(answers[i]) = UsersOf(answers[i - 1])

\* the records of responses i.. of the users query, a response that is
\* identical to the one before it left out
RECURSIVE UsersOfAnswersFrom(_)
UsersOfAnswersFrom(i) ==
  IF i > Len(answers) THEN <<>>
  ELSE (IF SameAsPrevious(i) THEN <<>>
        ELSE IF Truthy(UsersOf(answers[i])) THEN Elements(UsersOf(answers[i]))
        ELSE <<>>)
       \o UsersOfAnswersFrom(i + 1)

\* C24: with paginate=True every request of Users.query asks for the page
\* after the one before it, a request follows a response only when the
\* response has at least limit records and differs from the one before it,
\* a call that returned stopped at a response with fewer than limit records
\* or identical to the one before it, and the combined list is made of the
\* responses in order without a response identical to the one before it.
C24_PageIndexAndStop ==
  (operation = "Users.query" /\ paginate /\ svc_result.kind # "raise") =>
    /\ \A i \in 2..Len(requested) : requested[i] = requested[i - 1] + 1
    /\ Len(requested) = Len(answers) + IF svc_pc = "await" THEN 1 ELSE 0
    /\ \A i \in 1..Len(answers) :
         (i < Len(answers) \/ svc_pc # "done") =>
           /\ Len(UsersOf(answers[i]).items) >= svc_limit
           /\ ~SameAsPrevious(i)
    /\ svc_pc = "done" =>
         \/ Len(UsersOf(answers[Len(answers)]).items) < svc_limit
         \/ SameAsPrevious(Len(answers))
    /\ collected = UsersOfAnswersFrom(1)

\* three requests for consecutive pages, the third response identical to
\* the second and left out of the result
C24_Witness ==
  /\ operation = "Users.query" /\ paginate /\ svc_result.kind = "return"
  /\ Len(requested) = 3
  /\ requested[3] = requested[1] + 2
  /\ SameAsPrevious(3)
  /\ Len(collected) = 2 * Len(UsersOf(answers[3]).items)
\* the list of page i of a call of Items.query or Boards.query
PageList(i) ==
  LET data == Get(answers[i].value, "data")
      key == IF operation = "Items.query" THEN "items" ELSE "boards"
  IN  IF HasKey(data, key) THEN Get(data, key) ELSE PyNone

\* the records of pages i.. of a call of Items.query or Boards.query
RECURSIVE RecordsOfPagesFrom(_)
RecordsOfPagesFrom(i) ==
  IF i > Len(answers) THEN <<>>
  ELSE (IF Truthy(PageList(i)) THEN Elements(PageList(i)) ELSE <<>>)
       \o RecordsOfPagesFrom(i + 1)

\* the page loop of Items.query or Boards.query has ended without an error
PageLoopEnded ==
  \/ operation = "Items.query" /\ svc_result.kind = "return"
  \/ /\ operation = "Boards.query"
     /\ board_index >= 1 \/ svc_result.kind = "return"

\* the page loop of Items.query or Boards.query is running
PageLoopRunning ==
  /\ operation \in {"Items.query", "Boards.query"}
  /\ svc_pc \in {"build", "await"}

ProviderFaultErrors ==
  {"ComplexityLimitExceeded", "QueryFormatError", "MondayAPIError",
   "ClientError", "PaginationError"}

\* the number of items in the items pages of the boards from position i on
RECURSIVE ItemCountFrom(_, _)
ItemCountFrom(boards, i) ==
  IF i > Len(boards) THEN 0
  ELSE LET items_page == extract_items_page_value(boards[i]) IN
       (IF Truthy(items_page) THEN Len(Get(items_page, "items").items) ELSE 0)
       + ItemCountFrom(boards, i + 1)

\* the number of items in the answers of paginated_item_request from i on
RECURSIVE AnsweredItemCountFrom(_)
AnsweredItemCountFrom(i) ==
  IF i > Len(item_answers) THEN 0
  ELSE Len(Get(item_answers[i].value, "items").items)
       + AnsweredItemCountFrom(i + 1)

\* C28: a call of Boards.query that went into the pagination of its boards'
\* items ends either with boards whose items are complete (every answer of
\* paginated_item_request held items, all of them are in the boards, and no
\* board has a cursor left) or with a raised error of a kind that names the
\* provider's fault.
C28_CompleteBoardsOrProviderFault ==
  (operation = "Boards.query" /\ svc_pc = "done" /\ board_index >= 1) =>
    \/ /\ svc_result.kind = "return"
       /\ \A i \in 1..Len(item_answers) :
            /\ item_answers[i].kind = "return"
            /\ HasKey(item_answers[i].value, "items")
       /\ \A i \in 1..Len(collected) :
            Truthy(extract_items_page_value(collected[i])) =>
              ~HasKey(extract_items_page_value(collected[i]), "cursor")
       /\ ItemCountFrom(collected, 1) =
            ItemCountFrom(RecordsOfPagesFrom(1), 1) + AnsweredItemCountFrom(1)
       /\ svc_result.value = PyList(collected)
    \/ /\ svc_result.kind = "raise"
       /\ svc_result.tag \in ProviderFaultErrors

\* C31: Boards.query called with paginate_items true and fields that contain
\* 'items_page' but not 'cursor' raises QueryFormatError before any request
\* is issued: it sends nothing and receives nothing, its only step is the
\* refusal, and it ends with QueryFormatError.
C31_CursorlessFieldsRejectedBeforeRequest ==
  (/\ operation = "Boards.query"
   /\ paginate
   /\ Contains(fields, "items_page")
   /\ ~Contains(fields, "cursor")) =>
    /\ requested = <<>>
    /\ answers = <<>>
    /\ item_answers = <<>>
    /\ svc_pc \in {"build", "done"}
    /\ svc_pc = "build" => (ENABLED RejectFields /\ ~ENABLED SendRequest)
    /\ svc_pc = "done" =>
         (svc_result.kind = "raise" /\ svc_result.tag = "QueryFormatError")

\* the call was refused
C31_Witness ==
  /\ operation = "Boards.query"
  /\ paginate
  /\ fields = "id items_page { items { id } }"
  /\ svc_pc = "done"
  /\ svc_result.kind = "raise"
  /\ svc_result.tag = "QueryFormatError"
  /\ requested = <<>>

(***************************************************************************)
(* The first client (src/monday_client/monday.py): paginated_item_request  *)
(* over _execute_post_request, which is abstracted here to what it returns *)
(* or raises.  The response dicts leave out the complexity entry of        *)
(* 'data'; the extraction works on the text json.dumps writes and is       *)
(* modelled on the entries of the response in the order they are written,  *)
(* for lists nested at most three deep and strings without brackets or     *)
(* quotes.                                                                 *)
(***************************************************************************)
\* the most requests one traversal of the first client makes in the model
MaxPagedRequests == 3

PyBool(b) == [t |-> "bool", v |-> IF b THEN "True" ELSE "False", items |-> <<>>]

\* \s*: the position after the run of whitespace of s that starts at i
RECURSIVE SkipSpace(_, _)
SkipSpace(s, i) ==
  IF i <= Len(s) /\ CharAt(s, i) \in Whitespace THEN SkipSpace(s, i + 1) ELSE i

\* line 349, [^{}]*(?:{[^}]*}[^{}]*)*} from position i on: the position of
\* the closing brace of the match, 0 when the text ends first; in_group
\* holds inside {[^}]*}, which the first closing brace ends
RECURSIVE ItemsQueryEnd(_, _, _)
ItemsQueryEnd(q, i, in_group) ==
  IF i > Len(q) THEN 0
  ELSE IF CharAt(q, i) = "}"
       THEN IF in_group THEN ItemsQueryEnd(q, i + 1, FALSE) ELSE i
  ELSE IF CharAt(q, i) = "{" THEN ItemsQueryEnd(q, i + 1, TRUE)
  ELSE ItemsQueryEnd(q, i + 1, in_group)

\* line 349: the end of the match of the pattern that starts at i, 0 when
\* there is none
ItemsQueryMatchAt(q, i) ==
  IF ~StartsWithAt(q, i, "items") THEN 0
  ELSE LET brace == SkipSpace(q, i + 5) IN
       IF brace > Len(q) \/ CharAt(q, brace) # "{" THEN 0
       ELSE ItemsQueryEnd(q, brace + 1, FALSE)

\* line 353, re.sub(r'\s*cursor\s*(?=})', '', s) from position i on
RECURSIVE SubTrailingCursor(_, _)
SubTrailingCursor(s, i) ==
  IF i > Len(s) THEN ""
  ELSE LET word == SkipSpace(s, i)
           after == SkipSpace(s, word + 6)
       IN  IF /\ StartsWithAt(s, word, "cursor")
              /\ after <= Len(s)
              /\ CharAt(s, after) = "}"
           THEN SubTrailingCursor(s, after)
           ELSE CharAt(s, i) \o SubTrailingCursor(s, i + 1)

\* lines 339-357
_extract_items_query(q) ==
  LET starts == {i \in 1..Len(q) : ItemsQueryMatchAt(q, i) # 0} IN
  IF starts = {} THEN PyNone
  ELSE LET start == CHOOSE i \in starts : \A j \in starts : i <= j
       IN  PyStr(SubTrailingCursor(SubSeq(q, start, ItemsQueryMatchAt(q, start)), 1))

\* lines 320-337: the first "cursor": followed by a non-empty string or by
\* null, among the entries of x from entry i on
RECURSIVE CursorMatchFrom(_, _)
CursorMatchFrom(x, i) ==
  IF i > Len(x.items) THEN [found |-> FALSE, value |-> PyNone]
  ELSE LET entry == x.items[i]
           inside == CursorMatchFrom(entry.val, 1)
       IN  IF /\ x.t = "dict"
              /\ entry.k = "cursor"
              /\ entry.val = PyNone \/ (entry.val.t = "str" /\ entry.val.v # "")
           THEN [found |-> TRUE, value |-> entry.val]
           ELSE IF inside.found THEN inside
           ELSE CursorMatchFrom(x, i + 1)

_extract_cursor_value(dumped) == CursorMatchFrom(dumped, 1).value

\* lines 359-380: the elements of every list under a key "items" that is
\* not inside another such list, among the entries of x from entry i on
RECURSIVE ItemsMatchesFrom(_, _)
ItemsMatchesFrom(x, i) ==
  IF i > Len(x.items) THEN <<>>
  ELSE LET entry == x.items[i] IN
       (IF x.t = "dict" /\ entry.k = "items" /\ entry.val.t = "list"
        THEN Elements(entry.val)
        ELSE ItemsMatchesFrom(entry.val, 1))
       \o ItemsMatchesFrom(x, i + 1)

_extract_items(dumped) == ItemsMatchesFrom(dumped, 1)

\* line 145: the page size of every continuation query
PagedLimit == 50

\* line 145
NextItemsPageQuery(cur, items_value) ==
  "next_items_page (limit: " \o Str(PagedLimit) \o ", cursor: \"" \o cur
  \o "\") { cursor " \o items_value \o " }"

\* the queries of the callers: the two forms items_page builds (lines
\* 110-113) with short fields and with the default fields, and a query
\* without an items block
PagedQueries ==
  {"boards (ids: 1) { items_page (limit: 25) { cursor items { id name } } }",
   "boards (ids: 1) { items_page (limit: 25) { items { id name cursor } } }",
   "boards (ids: 1) { items_page (limit: 25) { cursor items { id name column_values { id text value column { title } } } } }",
   "boards (ids: 1) { id name }"}

\* what _execute_post_request hands back (lines 200-257): a response, the
\* dict {'error': ...} of lines 214, 225 and 232, or an exception, which is
\* ComplexityLimitExceeded after the fourth attempt (lines 191-197) or an
\* error of requests.post
PagedResults ==
  {Returned(Data(<<KV("boards", PyList(<<Board(<<>>,
      ItemsPage(<<KV("cursor", PyStr("abc"))>>, <<Item("a"), Item("b")>>))>>))>>)),
   Returned(Data(<<KV("next_items_page",
      ItemsPage(<<KV("cursor", PyStr("abc"))>>, <<Item("c")>>))>>)),
   Returned(Data(<<KV("next_items_page",
      ItemsPage(<<KV("cursor", PyNone)>>, <<Item("d")>>))>>)),
   Returned(Data(<<KV("next_items_page",
      ItemsPage(<<KV("cursor", PyStr(""))>>, <<>>))>>)),
   Returned(Data(<<KV("boards", PyList(<<>>))>>)),
   Returned(PyDict(<<KV("error", PyStr("Field 'x' doesn't exist"))>>)),
   GovernorRaised("ComplexityLimitExceeded"),
   GovernorRaised("ConnectionError")}

\* lines 135-136
PagedInit ==
  /\ GovernorIdle
  /\ ConcurrentIdle
  /\ ServiceIdle
  /\ ThreadsIdle
  /\ page_pc = "top"
  /\ query \in PagedQueries
  /\ limit = PagedLimit
  /\ starting_cursor = PyNone
  /\ cursor = PyStr("start")
  /\ combined_items = <<>>
  /\ page_result = NoPageResult
  /\ sent = <<>>
  /\ received = <<>>

\* lines 139-149: the query of the next request goes out
PagedSend ==
  /\ page_pc = "top"
  /\ Len(sent) < MaxPagedRequests
  /\ cursor # PyStr("start") => Truthy(_extract_items_query(query))
  /\ sent' = Append(sent,
       IF cursor = PyStr("start") THEN query
       ELSE NextItemsPageQuery(cursor.v, _extract_items_query(query).v))
  /\ page_pc' = "await"
  /\ UNCHANGED <<query, limit, starting_cursor, cursor, combined_items,
                 page_result, received>>
  /\ UNCHANGED outside_pagination

\* lines 142-144: no items block in the query
PagedExtractionFails ==
  /\ page_pc = "top"
  /\ cursor # PyStr("start")
  /\ ~Truthy(_extract_items_query(query))
  /\ page_result' = Returned(PyDict(<<KV("items", PyList(combined_items)),
                                      KV("completed", PyBool(FALSE))>>))
  /\ page_pc' = "done"
  /\ UNCHANGED <<query, limit, starting_cursor, cursor, combined_items, sent,
                 received>>
  /\ UNCHANGED outside_pagination

\* line 153
PagedErrorResult(error, paginated_query, items) ==
  PyDict(<<KV("errors", PyList(<<error>>)),
           KV("query", PyStr(paginated_query)),
           KV("completed", PyBool(FALSE))>>)

\* lines 149-153: _execute_post_request returned a dict with the key 'error'
PagedError ==
  /\ page_pc = "await"
  /\ \E r \in PagedResults :
       /\ r.kind = "return"
       /\ HasKey(r.value, "error")
       /\ received' = Append(received, r)
       /\ page_result' = Returned(PagedErrorResult(Get(r.value, "error"),
                                                   sent[Len(sent)], combined_items))
  /\ page_pc' = "done"
  /\ UNCHANGED <<query, limit, starting_cursor, cursor, combined_items, sent>>
  /\ UNCHANGED outside_pagination

\* line 149: _execute_post_request raised and nothing here catches it
PagedException ==
  /\ page_pc = "await"
  /\ \E r \in PagedResults :
       /\ r.kind = "raise"
       /\ received' = Append(received, r)
       /\ page_result' = [kind |-> "raise", tag |-> r.tag, value |-> PyNone]
  /\ page_pc' = "done"
  /\ UNCHANGED <<query, limit, starting_cursor, cursor, combined_items, sent>>
  /\ UNCHANGED outside_pagination

\* lines 155-160 and 138: the items are kept and the cursor asks for more
PagedNextPage ==
  /\ page_pc = "await"
  /\ \E r \in PagedResults :
       /\ r.kind = "return"
       /\ ~HasKey(r.value, "error")
       /\ Truthy(_extract_cursor_value(r.value))
       /\ received' = Append(received, r)
       /\ combined_items' = combined_items \o _extract_items(r.value)
       /\ cursor' = _extract_cursor_value(r.value)
  /\ page_pc' = "top"
  /\ UNCHANGED <<query, limit, starting_cursor, page_result, sent>>
  /\ UNCHANGED outside_pagination

\* lines 155-162: the items are kept, the loop breaks and the result is
\* complete
PagedLastPage ==
  /\ page_pc = "await"
  /\ \E r \in PagedResults :
       /\ r.kind = "return"
       /\ ~HasKey(r.value, "error")
       /\ ~Truthy(_extract_cursor_value(r.value))
       /\ received' = Append(received, r)
       /\ combined_items' = combined_items \o _extract_items(r.value)
       /\ cursor' = _extract_cursor_value(r.value)
       /\ page_result' =
            Returned(PyDict(<<KV("items",
                                 PyList(combined_items \o _extract_items(r.value))),
                              KV("completed", PyBool(TRUE))>>))
  /\ page_pc' = "done"
  /\ UNCHANGED <<query, limit, starting_cursor, sent>>
  /\ UNCHANGED outside_pagination

PagedNext ==
  \/ PagedSend
  \/ PagedExtractionFails
  \/ PagedError
  \/ PagedException
  \/ PagedNextPage
  \/ PagedLastPage

SpecPaged == PagedInit /\ [][PagedNext]_vars

\* the response is a fault: an exception or a dict with the key 'error'
PagedFault(r) == r.kind = "raise" \/ HasKey(r.value, "error")

\* the items of the pages received before response k, in page order
RECURSIVE PagedItemsBefore(_)
PagedItemsBefore(k) ==
  IF k <= 1 THEN <<>>
  ELSE PagedItemsBefore(k - 1) \o _extract_items(received[k - 1].value)

\* C35: in the first client the result of paginated_item_request has
\* 'completed' True exactly when the traversal ended on a null cursor with
\* no fault; after a fault the result has 'completed' False and holds the
\* items accumulated from the earlier pages.
C35_CompletedOnlyWithoutFault ==
  page_pc = "done" =>
    /\ page_result.kind = "return"
    /\ HasKey(page_result.value, "completed")
    /\ Get(page_result.value, "completed") = PyBool(TRUE) <=>
         /\ received # <<>>
         /\ \A k \in 1..Len(received) : ~PagedFault(received[k])
         /\ ~Truthy(cursor)
    /\ (received # <<>> /\ PagedFault(received[Len(received)])) =>
         /\ Get(page_result.value, "completed") = PyBool(FALSE)
         /\ HasKey(page_result.value, "items")
         /\ Get(page_result.value, "items")
              = PyList(PagedItemsBefore(Len(received)))

(***************************************************************************)
(* The first client under threads: _execute_post_request called by two     *)
(* threads on one MondayClient (src/monday_client/monday.py, lines         *)
(* 191-300).  The client's counters and its lock are shared; the locals of *)
(* a call are its thread's.  A step is what a thread does between two      *)
(* points at which the other thread can run.  The request limit of line    *)
(* 199 (5000 calls in 60 seconds) is out of reach of two threads and is    *)
(* left out.                                                               *)
(***************************************************************************)
Threads == {1, 2}

\* lines 78, 80, 81 and 192
complexity_limit == 10000000

mutation_limit == 2000

special_mutation_limit == 40

stop_after_attempt == 4

\* what a call asks for: a query, a mutation, one of special_mutations
\* (line 82), or a query type that is not in valid_query_types (line 83)
QueryKinds == {"query", "mutation", "special_mutation", "invalid"}

\* response_data['data']['complexity'] of a response: a request that
\* takes the whole budget, a heavy one, a light one, or a response without
\* the entry
Complexities ==
  {[present |-> TRUE, before |-> 10000000, after |-> 0],
   [present |-> TRUE, before |-> 10000000, after |-> 4000000],
   [present |-> TRUE, before |-> 100, after |-> 90],
   [present |-> FALSE, before |-> 0, after |-> 0]}

\* a thread about to call _execute_post_request; slept
\* tells whether the call in progress has slept inside the with block
NewThread(kind) ==
  [pc |-> "call", kind |-> kind, attempt |-> 1,
   complexity |-> [present |-> FALSE, before |-> 0, after |-> 0],
   slept |-> FALSE, result |-> ""]

\* lines 78-90, and the calls made before the ones modelled: the mutation
\* counters are at zero or one short of their limits
ThreadsInit ==
  /\ GovernorIdle
  /\ PaginationIdle
  /\ ConcurrentIdle
  /\ ServiceIdle
  /\ \E near \in BOOLEAN :
       client = [_lock |-> 0, _complexity_used |-> 0,
                 _mutations_used |-> IF near THEN mutation_limit - 1 ELSE 0,
                 _special_mutations_used |->
                   IF near THEN special_mutation_limit - 1 ELSE 0]
  /\ threads \in [Threads -> {NewThread(kind) : kind \in QueryKinds}]

outside_threads == <<governor_vars, page_vars, concurrent_vars, service_vars>>

\* lines 211-214
InvalidQueryType(t) ==
  /\ threads[t].pc = "call"
  /\ threads[t].kind = "invalid"
  /\ threads' = [threads EXCEPT ![t].pc = "done", ![t].result = "error"]
  /\ UNCHANGED client
  /\ UNCHANGED outside_threads

\* lines 216-225: the provider answers with 'errors'
GraphQLErrors(t) ==
  /\ threads[t].pc = "call"
  /\ threads[t].kind # "invalid"
  /\ threads' = [threads EXCEPT ![t].pc = "done", ![t].result = "error"]
  /\ UNCHANGED client
  /\ UNCHANGED outside_threads

\* lines 216-222: the provider answers without 'errors'
PostRequest(t) ==
  /\ threads[t].pc = "call"
  /\ threads[t].kind # "invalid"
  /\ \E complexity \in Complexities :
       threads' = [threads EXCEPT ![t].pc = "acquire",
                                  ![t].complexity = complexity]
  /\ UNCHANGED client
  /\ UNCHANGED outside_threads

\* line 227: with self._lock
AcquireLock(t) ==
  /\ threads[t].pc = "acquire"
  /\ client._lock = 0
  /\ client' = [client EXCEPT !._lock = t]
  /\ threads' = [threads EXCEPT ![t].pc = "locked"]
  /\ UNCHANGED outside_threads

\* lines 228-232: KeyError, the return leaves the with block
MissingComplexity(t) ==
  /\ threads[t].pc = "locked"
  /\ ~threads[t].complexity.present
  /\ client' = [client EXCEPT !._lock = 0]
  /\ threads' = [threads EXCEPT ![t].pc = "done", ![t].result = "error"]
  /\ UNCHANGED outside_threads

\* lines 233-241: the counter is reset when the provider's budget is above it
CheckReset(t) ==
  /\ threads[t].pc = "locked"
  /\ threads[t].complexity.present
  /\ client' = [client EXCEPT !._complexity_used =
                  IF threads[t].complexity.after > @ THEN 0 ELSE @]
  /\ threads' = [threads EXCEPT ![t].pc = "check"]
  /\ UNCHANGED outside_threads

\* line 235
ComplexityUsed(t) == threads[t].complexity.before - threads[t].complexity.after

\* line 243
OverLimit(t) ==
  client._complexity_used + ComplexityUsed(t) > complexity_limit - 1000

\* variant: the raise leaves the lock with the thread
LimitExceeded_KeepsLock(t) ==
  /\ threads[t].pc = "check"
  /\ OverLimit(t)
  /\ client' = [client EXCEPT !._complexity_used = 0]
  /\ threads' = IF threads[t].attempt >= stop_after_attempt
                THEN [threads EXCEPT ![t].pc = "done", ![t].result = "raise"]
                ELSE [threads EXCEPT ![t].pc = "backoff"]
  /\ UNCHANGED outside_threads

\* lines 243-246 and 191-197: ComplexityLimitExceeded leaves the with
\* block; after the fourth attempt it leaves the call, before that the
\* call sleeps and is made again
LimitExceeded(t) ==
  /\ threads[t].pc = "check"
  /\ OverLimit(t)
  /\ client' = [client EXCEPT !._complexity_used = 0, !._lock = 0]
  /\ threads' = IF threads[t].attempt >= stop_after_attempt
                THEN [threads EXCEPT ![t].pc = "done", ![t].result = "raise"]
                ELSE [threads EXCEPT ![t].pc = "backoff"]
  /\ UNCHANGED outside_threads

\* lines 248-257: the request is counted; a query returns its response, a
\* mutation goes on to its own limit
AddComplexity(t) ==
  /\ threads[t].pc = "check"
  /\ ~OverLimit(t)
  /\ IF threads[t].kind = "query"
     THEN /\ client' = [client EXCEPT !._complexity_used = @ + ComplexityUsed(t),
                                      !._lock = 0]
          /\ threads' = [threads EXCEPT ![t].pc = "done",
                                        ![t].result = "response"]
     ELSE /\ client' = [client EXCEPT !._complexity_used = @ + ComplexityUsed(t)]
          /\ threads' = [threads EXCEPT ![t].pc = "mutation"]
  /\ UNCHANGED outside_threads

\* lines 259-277 and 282-300 up to the sleep: the counter of the kind of
\* mutation starts again after 60 seconds and counts this mutation; at the
\* limit the thread sleeps with the lock, below it the call returns
CheckMutationLimit(t) ==
  /\ threads[t].pc = "mutation"
  /\ \E minute_over \in BOOLEAN :
       LET limit_reached(used, most) ==
             (IF minute_over THEN 0 ELSE used) + 1 >= most
           counted(used) == (IF minute_over THEN 0 ELSE used) + 1
           sleeps_now ==
             IF threads[t].kind = "special_mutation"
             THEN limit_reached(client._special_mutations_used,
                                special_mutation_limit)
             ELSE limit_reached(client._mutations_used, mutation_limit)
       IN  /\ client' =
                IF threads[t].kind = "special_mutation"
                THEN [client EXCEPT
                        !._special_mutations_used = counted(@),
                        !._lock = IF sleeps_now THEN @ ELSE 0]
                ELSE [client EXCEPT
                        !._mutations_used = counted(@),
                        !._lock = IF sleeps_now THEN @ ELSE 0]
           /\ threads' = IF sleeps_now
                         THEN [threads EXCEPT ![t].pc = "limit_sleep",
                                              ![t].slept = TRUE]
                         ELSE [threads EXCEPT ![t].pc = "done",
                                              ![t].result = "response"]
  /\ UNCHANGED outside_threads

\* lines 275-277 and 298-300, then line 257: time.sleep returns, the
\* counter starts at one and the call returns
LimitSleepEnds(t) ==
  /\ threads[t].pc = "limit_sleep"
  /\ client' = IF threads[t].kind = "special_mutation"
               THEN [client EXCEPT !._special_mutations_used = 1, !._lock = 0]
               ELSE [client EXCEPT !._mutations_used = 1, !._lock = 0]
  /\ threads' = [threads EXCEPT ![t].pc = "done", ![t].result = "response"]
  /\ UNCHANGED outside_threads

\* lines 178-197: the sleeps before the retry are over and the call is
\* made again
RetryCall(t) ==
  /\ threads[t].pc = "backoff"
  /\ threads' = [threads EXCEPT ![t].pc = "call", ![t].attempt = @ + 1]
  /\ UNCHANGED client
  /\ UNCHANGED outside_threads

\* what a thread does at the lock and inside the with block
LockStep(t) ==
  \/ AcquireLock(t)
  \/ MissingComplexity(t)
  \/ CheckReset(t)
  \/ LimitExceeded(t)
  \/ AddComplexity(t)
  \/ CheckMutationLimit(t)
  \/ LimitSleepEnds(t)

ThreadsNext ==
  \E t \in Threads :
    \/ InvalidQueryType(t)
    \/ GraphQLErrors(t)
    \/ PostRequest(t)
    \/ LockStep(t)
    \/ RetryCall(t)

SpecThreads == ThreadsInit /\ [][ThreadsNext]_vars

\* a thread that can run does run, and time.sleep returns: every thread at
\* the lock or inside the with block takes its next step.  Nothing is
\* assumed of requests.post, which is called without a timeout.
SpecThreadsFair == SpecThreads /\ \A t \in Threads : WF_vars(LockStep(t))

\* the thread is inside the with block, where the counters are read and
\* written
InsideWith(t) ==
  threads[t].pc \in {"locked", "check", "mutation", "limit_sleep"}

WaitsForLock(t) == threads[t].pc = "acquire"

C36_LockDiscipline ==
  /\ \A t \in Threads : InsideWith(t) <=> client._lock = t
  /\ client._lock \in Threads \cup {0}
  /\ client._complexity_used <= complexity_limit - 1000
  /\ \A t \in Threads :
       WaitsForLock(t) =>
         \/ ENABLED AcquireLock(t)
         \/ \E u \in Threads \ {t} : InsideWith(u) /\ ENABLED LockStep(u)

\* C36: in the first client concurrent _execute_post_request calls read and
\* update the shared complexity counter only while they hold the lock (a
\* thread is inside the with block exactly when it holds the lock, so at
\* most one is), the lock is released on every way out of the block, the
\* raise of ComplexityLimitExceeded included, the counter never exceeds
\* complexity_limit - 1000, and a thread that waits for the lock gets it.
C36_LockedCounterAndNoStarvation ==
  /\ []C36_LockDiscipline
  /\ \A t \in Threads : WaitsForLock(t) ~> ~WaitsForLock(t)

\* a thread waits for the lock while the other, back from a raise of
\* ComplexityLimitExceeded, holds it with the counter above zero
C36_Witness ==
  \E t, u \in Threads :
    /\ WaitsForLock(t)
    /\ client._lock = u
    /\ threads[u].attempt = stop_after_attempt
    /\ client._complexity_used > 0
====
